---- MODULE Spec2Model ----
(***************************************************************************)
(* Verification model of the consensus core of go-tangerine:               *)
(*   - the non-blocking dispatcher (core/nonblocking.go),                  *)
(*   - the agreement state machine (core/agreement-state.go).              *)
(* Each component has its own specification (SpecNB, SpecNBFair, SpecBA);  *)
(* the variables of the other component stay at their initial value.       *)
(***************************************************************************)
EXTENDS Integers, Sequences, FiniteSets, TLC

(***************************************************************************)
(* Bounds of the model.                                                    *)
(***************************************************************************)
\* number of BlockConfirmed/BlockDelivered calls made by the callers
MaxEvents == 2
\* number of threads that call wait()
NumWaiters == 1
\* number of nextState calls made by the agreement driver
MaxCalls == 7
\* periods are 1..MaxPeriod
MaxPeriod == 2
\* number of writes to isLeader, lockValue and period made by other threads
\* while the transitions run
MaxWrites == 3
\* the rounds asked of the committee cache are 0..MaxRound
MaxRound == 6
\* number of cache calls made by all the callers together
MaxOps == 3
\* the private keys of the signers are 1..NumSignerKeys
NumSignerKeys == 2
\* number of changes made to a message after it was signed
MaxEdits == 2
\* the largest count given to Rehash
MaxCount == 5
\* the dex cache is built with a size in 1..MaxCacheSize
MaxCacheSize == 2
\* number of calls made to the dex cache
MaxCacheOps == 3
\* number of PutBlock calls made to the MemBackedDB
MaxPuts == 3

VARIABLES
    \* ---- nonBlocking (core/nonblocking.go) ----
    events,      \* nb.events: the queue, a sequence of event ids
    mutex,       \* nb.eventsChange.L: <<"free",0>> or the thread holding it
    running,     \* nb.running: the WaitGroup counter
    wpc,         \* position of the run() goroutine
    cur,         \* run()'s local `event` (0: none)
    epc,         \* position of the caller submitting event e
    kind,        \* the type of event e: "confirmed" | "delivered" | "none"
    tpc,         \* position of each thread calling wait()
    submitted,   \* history: event ids in the order they were appended
    delivered,   \* history: <<event id, callback>> in the order the app was called
    completed,   \* history: the events whose application callback has returned
    pendingAtCall, \* history: per wait() caller, whether events were queued or in flight at its call
    \* ---- agreement state (core/agreement-state.go) ----
    state,       \* the current agreementState
    bpc,         \* position inside the running nextState call
    baLock,      \* s.a.lock as seen by the transition: "free" | "w" | "r"
    isLeader,    \* s.a.isLeader
    lockValue,   \* s.a.lockValue
    period,      \* s.a.period
    hash,        \* nextState's local `hash`
    nCalls,      \* history: number of nextState calls that have returned
    nWrites,     \* history: number of writes made by the other threads
    trace,       \* history: the reads and external calls of the transitions
    err,         \* history: the error returned by the last nextState call
    quorumMet,   \* input: whether the votes counted outside the state machine reach a quorum
    \* ---- NodeSetCache (core/utils/nodeset-cache.go) ----
    rounds,      \* cache.rounds: round -> sets, defined on the cached rounds
    keyPool,     \* cache.keyPool: node id -> [pubKey, refCnt], defined on the pooled nodes
    call,        \* per caller: the call it is in, between a get that missed and its update
    last,        \* history: the call that returned last and what it returned
    nOps,        \* history: number of cache calls started
    \* ---- Signer and the hash / verify functions (core/utils/signer.go, crypto.go) ----
    block,       \* the types.Block being signed, changed and verified
    signedBlock, \* history: the block as SignBlock left it (the zero block before)
    nEdits,      \* history: number of changes made after signing, and of SignCRS calls
    out,         \* history: the last call of a verify or sign function and its result
    voteMsg,     \* the types.Vote being signed, changed and verified
    signedVote,  \* history: the vote as SignVote left it (the zero vote before)
    crsLog,      \* history: the SignCRS calls: signer, crs and error
    blsSign,     \* Signer.blsSign of each signer: 0 (nil) or the threshold key it signs with
    blsCalls,    \* history: the arguments of the calls of the threshold signers
    msg,         \* the DKG message being signed and verified
    rh,          \* history: the arguments and the results of the last Rehash calls
    \* ---- the dex cache (dex/cache.go) ----
    size,        \* c.size (0: newCache has not run)
    blockCache,  \* c.blockCache: block hash -> block
    finalizedBlockCache, \* c.finalizedBlockCache: position -> block
    voteCache,   \* c.voteCache: position -> (vote key -> vote)
    votePosition, \* c.votePosition: the positions of voteCache, oldest first
    voteSize,    \* c.voteSize
    cacheLast,   \* history: the last call made to the cache
    nCacheOps,   \* history: number of calls made to the cache
    created,     \* history: the positions in the order addVote made their maps
    \* ---- MemBackedDB (core/nonblocking.go) ----
    blockHashSequence, \* m.blockHashSequence
    blocksByHash, \* m.blocksByHash: the hashes stored (the block of a hash is the hash)
    putCall,     \* per thread: its position in PutBlock and the hash it puts
    putLog       \* history: the PutBlock calls that returned, in order

nbVars == <<events, mutex, running, wpc, cur, epc, kind, tpc,
            submitted, delivered, completed, pendingAtCall>>
baVars == <<state, bpc, baLock, isLeader, lockValue, period, hash, nCalls,
            nWrites, trace, err, quorumMet>>
ncVars == <<rounds, keyPool, call, last, nOps>>
blkVars == <<block, signedBlock>>
voteVars == <<voteMsg, signedVote>>
crsVars == <<crsLog, blsSign, blsCalls>>
cgVars == <<blkVars, voteVars, crsVars, msg, rh, nEdits, out>>
dxVars == <<size, blockCache, finalizedBlockCache, voteCache, votePosition,
            voteSize, cacheLast, nCacheOps, created>>
dbVars == <<blockHashSequence, blocksByHash, putCall, putLog>>
vars == <<nbVars, baVars, ncVars, cgVars, dxVars, dbVars>>

(***************************************************************************)
(* Helpers.                                                                *)
(***************************************************************************)
Range(s) == {s[i] : i \in 1..Len(s)}

IsPrefix(s, t) == Len(s) <= Len(t) /\ \A i \in 1..Len(s) : s[i] = t[i]

EventIds == 1..MaxEvents
Waiters == 1..NumWaiters

Free == <<"free", 0>>
WorkerId == <<"worker", 0>>
Producer(e) == <<"p", e>>
Waiter(w) == <<"w", w>>

(***************************************************************************)
(* nonBlocking: the dispatcher of core/nonblocking.go.                     *)
(* Threads: one caller per submitted event, the run() goroutine, and the   *)
(* threads calling wait().  sync.Cond.Wait releases the mutex and parks    *)
(* the thread (position "wait"); Broadcast moves every parked thread to    *)
(* "lock", where it re-acquires the mutex before re-testing its condition. *)
(* A critical section that cannot block is one step, taken when the mutex  *)
(* is free; the mutex is seen held only by a wait() caller that blocks in  *)
(* nb.running.Wait() inside its critical section.                          *)
(***************************************************************************)
EventKinds == {"confirmed", "delivered"}

\* a Broadcast that wakes nobody (a lost wake-up)
BroadcastLost(p) == p

\* eventsChange.Broadcast(): every thread parked in Wait() becomes runnable
Broadcast(p) == IF p = "wait" THEN "lock" ELSE p

\* taking the newest event instead of the oldest
NextEventLast(q) == q[Len(q)]

\* run(): event = nb.events[0]
NextEvent(q) == Head(q)

\* a run() that leaves the event it has taken in the queue
RestEventsKeepsHead(q) == q

\* run(): nb.events = nb.events[1:]
RestEvents(q) == Tail(q)

\* run(): the type switch that picks the application callback
Callback(k) ==
    CASE k = "confirmed" -> "BlockConfirmed"
      [] k = "delivered" -> "BlockDelivered"
      [] OTHER -> "none"

\* a wait() that does not wait for the WaitGroup
WaitGroupIgnored(n) == TRUE

\* wait(): nb.running.Wait() returns when the WaitGroup counter is zero
WaitGroupIdle(n) == n = 0

\* the events that are queued, or popped with their callback not yet returned
InFlight == IF wpc \in {"dispatch", "callback"} THEN {cur} ELSE {}
Pending == Range(events) \cup InFlight

InitNBVars ==
    /\ events = <<>>
    /\ mutex = Free
    /\ running = 0
    /\ wpc = "lock"
    /\ cur = 0
    /\ epc = [e \in EventIds |-> "idle"]
    /\ kind = [e \in EventIds |-> "none"]
    /\ tpc = [w \in Waiters |-> "idle"]
    /\ submitted = <<>>
    /\ delivered = <<>>
    /\ completed = {}
    /\ pendingAtCall = [w \in Waiters |-> FALSE]

\* BlockConfirmed(block) / BlockDelivered(...): the caller enters addEvent
\* and reaches nb.eventsChange.L.Lock().  Event ids are handed out in call order.
AddEventCall(e, k) ==
    /\ epc[e] = "idle"
    /\ IF e = 1 THEN TRUE ELSE epc[e - 1] # "idle"
    /\ epc' = [epc EXCEPT ![e] = "lock"]
    /\ kind' = [kind EXCEPT ![e] = k]
    /\ UNCHANGED <<events, mutex, running, wpc, cur, tpc, submitted, delivered,
                   completed, pendingAtCall>>
    /\ UNCHANGED <<baVars, ncVars, cgVars, dxVars, dbVars>>

\* addEvent: Lock succeeds; append, Broadcast, deferred Unlock, return
AddEvent(e) ==
    /\ epc[e] = "lock"
    /\ mutex = Free
    /\ events' = Append(events, e)
    /\ submitted' = Append(submitted, e)
    /\ wpc' = Broadcast(wpc)
    /\ tpc' = [w \in Waiters |-> Broadcast(tpc[w])]
    /\ epc' = [epc EXCEPT ![e] = "returned"]
    /\ UNCHANGED <<mutex, running, cur, kind, delivered, completed, pendingAtCall>>
    /\ UNCHANGED <<baVars, ncVars, cgVars, dxVars, dbVars>>

\* run(): Lock succeeds (at the top of the loop or when Wait() resumes);
\* len(nb.events) == 0, so nb.eventsChange.Wait() releases the mutex and parks
RunWait ==
    /\ wpc = "lock"
    /\ mutex = Free
    /\ Len(events) = 0
    /\ wpc' = "wait"
    /\ UNCHANGED <<events, mutex, running, cur, epc, kind, tpc, submitted,
                   delivered, completed, pendingAtCall>>
    /\ UNCHANGED <<baVars, ncVars, cgVars, dxVars, dbVars>>

\* run(): Lock succeeds; pop the first event, nb.running.Add(1), deferred Unlock
RunPop ==
    /\ wpc = "lock"
    /\ mutex = Free
    /\ Len(events) > 0
    /\ cur' = NextEvent(events)
    /\ events' = RestEvents(events)
    /\ running' = running + 1
    /\ wpc' = "dispatch"
    /\ UNCHANGED <<mutex, epc, kind, tpc, submitted, delivered, completed, pendingAtCall>>
    /\ UNCHANGED <<baVars, ncVars, cgVars, dxVars, dbVars>>

\* run(): the type switch calls nb.app.BlockConfirmed / nb.app.BlockDelivered;
\* an unknown event is printed and dropped
RunDispatch ==
    /\ wpc = "dispatch"
    /\ IF Callback(kind[cur]) = "none"
         THEN /\ wpc' = "done"
              /\ UNCHANGED delivered
         ELSE /\ wpc' = "callback"
              /\ delivered' = Append(delivered, <<cur, Callback(kind[cur])>>)
    /\ UNCHANGED <<events, mutex, running, cur, epc, kind, tpc, submitted,
                   completed, pendingAtCall>>
    /\ UNCHANGED <<baVars, ncVars, cgVars, dxVars, dbVars>>

\* the application callback returns
RunReturn ==
    /\ wpc = "callback"
    /\ completed' = completed \cup {cur}
    /\ wpc' = "done"
    /\ UNCHANGED <<events, mutex, running, cur, epc, kind, tpc, submitted,
                   delivered, pendingAtCall>>
    /\ UNCHANGED <<baVars, ncVars, cgVars, dxVars, dbVars>>

\* run(): nb.running.Done(); nb.eventsChange.Broadcast(); next iteration
RunDone ==
    /\ wpc = "done"
    /\ running' = running - 1
    /\ tpc' = [w \in Waiters |-> Broadcast(tpc[w])]
    /\ wpc' = "lock"
    /\ cur' = 0
    /\ UNCHANGED <<events, mutex, epc, kind, submitted, delivered, completed, pendingAtCall>>
    /\ UNCHANGED <<baVars, ncVars, cgVars, dxVars, dbVars>>

\* a thread calls wait() and reaches nb.eventsChange.L.Lock()
WaitCall(w) ==
    /\ tpc[w] = "idle"
    /\ tpc' = [tpc EXCEPT ![w] = "lock"]
    /\ pendingAtCall' = [pendingAtCall EXCEPT ![w] = Pending # {}]
    /\ UNCHANGED <<events, mutex, running, wpc, cur, epc, kind, submitted,
                   delivered, completed>>
    /\ UNCHANGED <<baVars, ncVars, cgVars, dxVars, dbVars>>

\* wait(): Lock succeeds (on entry or when Wait() resumes); len(nb.events) > 0,
\* so nb.eventsChange.Wait() releases the mutex and parks
WaitSleep(w) ==
    /\ tpc[w] = "lock"
    /\ mutex = Free
    /\ Len(events) > 0
    /\ tpc' = [tpc EXCEPT ![w] = "wait"]
    /\ UNCHANGED <<events, mutex, running, wpc, cur, epc, kind, submitted,
                   delivered, completed, pendingAtCall>>
    /\ UNCHANGED <<baVars, ncVars, cgVars, dxVars, dbVars>>

\* wait(): Lock succeeds; the queue is empty, so the loop ends and the thread
\* enters nb.running.Wait() with the mutex still held
WaitDrained(w) ==
    /\ tpc[w] = "lock"
    /\ mutex = Free
    /\ Len(events) = 0
    /\ mutex' = Waiter(w)
    /\ tpc' = [tpc EXCEPT ![w] = "running_wait"]
    /\ UNCHANGED <<events, running, wpc, cur, epc, kind, submitted, delivered,
                   completed, pendingAtCall>>
    /\ UNCHANGED <<baVars, ncVars, cgVars, dxVars, dbVars>>

\* wait(): nb.running.Wait() returns; deferred Unlock, return
WaitReturn(w) ==
    /\ tpc[w] = "running_wait"
    /\ mutex = Waiter(w)
    /\ WaitGroupIdle(running)
    /\ mutex' = Free
    /\ tpc' = [tpc EXCEPT ![w] = "returned"]
    /\ UNCHANGED <<events, running, wpc, cur, epc, kind, submitted, delivered,
                   completed, pendingAtCall>>
    /\ UNCHANGED <<baVars, ncVars, cgVars, dxVars, dbVars>>

(***************************************************************************)
(* Agreement state machine: core/agreement-state.go.                       *)
(* One driver thread calls nextState; other threads of the agreement       *)
(* (vote processing, restart) write isLeader, lockValue and period under   *)
(* the write lock of s.a.lock.  A nextState call is split at every lock    *)
(* operation and every external call.  `trace` records, in order, the      *)
(* isLeader reads and the calls made on s.a.recv and s.a.leader.           *)
(***************************************************************************)
\* types.NullBlockHash: the zero hash
NullBlockHash == 0
\* types.SkipBlockHash: every byte 0xff
SkipBlockHash == 255
\* the hashes of ordinary blocks are 1..NumBlockHashes
NumBlockHashes == 1
Hashes == {NullBlockHash, SkipBlockHash} \cup (1..NumBlockHashes)

Periods == 1..MaxPeriod

\* types.NewVote(t, hash, period)
NewVote(t, h, p) == [typ |-> t, hash |-> h, period |-> p]
NoVote == [typ |-> "none", hash |-> NullBlockHash, period |-> 0]

\* one entry of the history: an isLeader read (leader: the value read), or a
\* call of ProposeBlock / leaderBlockHash (ret: the hash returned) or of
\* ProposeVote (vote: its argument); locked: whether the transition holds
\* s.a.lock at that moment
Rec(op, ld, ret, vote) ==
    [op |-> op, st |-> state, leader |-> ld, ret |-> ret, vote |-> vote,
     locked |-> baLock # "free"]

\* a fast state that votes for the null hash too
FastVotesAlways(h) == TRUE

\* fastState.nextState: the vote is sent only for a non-null proposal
FastVotes(h) == h # NullBlockHash

\* an initial state with the leader test inverted
InitialProposesLeader(ld) == ld

\* initialState.nextState: the proposal is made when the node is not the leader
InitialProposes(ld) == ~ld

\* a pre-commit state that forgets the SKIP value
PreCommitUsesLeaderNullOnly(lv) == lv = NullBlockHash

\* preCommitState.nextState: the branch that asks the leader selector
PreCommitUsesLeader(lv) == lv = SkipBlockHash \/ lv = NullBlockHash

\* a commit state that turns SKIP into the null hash
CommitHashSkipAsNull(lv) == IF lv = SkipBlockHash THEN NullBlockHash ELSE lv

\* commitState.nextState: the hash of the Com vote
CommitHash(lv) == lv

\* the period given to NewVote: s.a.period, read at the ProposeVote call
VotePeriod(p) == p

\* a return that reports a missing quorum and stays in the state
ReturnsErrWhenNoQuorum(next) ==
    /\ state' = IF quorumMet THEN next ELSE state
    /\ bpc' = "idle"
    /\ nCalls' = nCalls + 1
    /\ err' = IF quorumMet THEN "nil" ELSE "ErrNoEnoughVoteInAckState"

\* return newXState(s.a), nil
Returns(next) ==
    /\ state' = next
    /\ bpc' = "idle"
    /\ nCalls' = nCalls + 1
    /\ err' = "nil"

InitBAVars ==
    /\ state = "Fast"
    /\ bpc = "idle"
    /\ baLock = "free"
    /\ isLeader = FALSE
    /\ lockValue = NullBlockHash
    /\ period = 1
    /\ hash = NullBlockHash
    /\ nCalls = 0
    /\ nWrites = 0
    /\ trace = <<>>
    /\ err = "none"
    /\ quorumMet = FALSE

\* fastState.nextState: s.a.lock.Lock() inside the closure
FastLockLeader ==
    /\ state = "Fast" /\ bpc = "idle" /\ nCalls < MaxCalls
    /\ baLock = "free"
    /\ baLock' = "w"
    /\ bpc' = "fast_read"
    /\ UNCHANGED <<state, isLeader, lockValue, period, hash, nCalls, err, nWrites, trace>>
    /\ UNCHANGED <<quorumMet, nbVars, ncVars, cgVars, dxVars, dbVars>>

\* a closure that returns without unlocking
FastReadLeaderKeepsLock ==
    /\ bpc = "fast_read"
    /\ trace' = Append(trace, Rec("isLeader", isLeader, NullBlockHash, NoVote))
    /\ IF isLeader
         THEN /\ bpc' = "fast_propose"
              /\ UNCHANGED <<state, nCalls, err>>
         ELSE Returns("FastVote")
    /\ UNCHANGED <<baLock, isLeader, lockValue, period, hash, nWrites>>
    /\ UNCHANGED <<quorumMet, nbVars, ncVars, cgVars, dxVars, dbVars>>

\* fastState.nextState: return s.a.isLeader, deferred Unlock; a non-leader
\* goes straight to newFastVoteState
FastReadLeader ==
    /\ bpc = "fast_read"
    /\ trace' = Append(trace, Rec("isLeader", isLeader, NullBlockHash, NoVote))
    /\ baLock' = "free"
    /\ IF isLeader
         THEN /\ bpc' = "fast_propose"
              /\ UNCHANGED <<state, nCalls, err>>
         ELSE Returns("FastVote")
    /\ UNCHANGED <<isLeader, lockValue, period, hash, nWrites>>
    /\ UNCHANGED <<quorumMet, nbVars, ncVars, cgVars, dxVars, dbVars>>

\* fastState.nextState: hash := s.a.recv.ProposeBlock()
FastProposeBlock(h) ==
    /\ bpc = "fast_propose"
    /\ hash' = h
    /\ trace' = Append(trace, Rec("ProposeBlock", FALSE, h, NoVote))
    /\ IF FastVotes(h)
         THEN /\ bpc' = "fast_lock"
              /\ UNCHANGED <<state, nCalls, err>>
         ELSE Returns("FastVote")
    /\ UNCHANGED <<baLock, isLeader, lockValue, period, nWrites>>
    /\ UNCHANGED <<quorumMet, nbVars, ncVars, cgVars, dxVars, dbVars>>

\* fastState.nextState: s.a.lock.Lock() before the vote
FastLock ==
    /\ bpc = "fast_lock"
    /\ baLock = "free"
    /\ baLock' = "w"
    /\ bpc' = "fast_vote"
    /\ UNCHANGED <<state, isLeader, lockValue, period, hash, nCalls, err, nWrites, trace>>
    /\ UNCHANGED <<quorumMet, nbVars, ncVars, cgVars, dxVars, dbVars>>

\* fastState.nextState: ProposeVote(NewVote(VoteFast, hash, period)),
\* return newFastVoteState, deferred Unlock
FastProposeVote ==
    /\ bpc = "fast_vote"
    /\ trace' = Append(trace, Rec("ProposeVote", FALSE, NullBlockHash,
                                  NewVote("Fast", hash, VotePeriod(period))))
    /\ baLock' = "free"
    /\ Returns("FastVote")
    /\ UNCHANGED <<isLeader, lockValue, period, hash, nWrites>>
    /\ UNCHANGED <<quorumMet, nbVars, ncVars, cgVars, dxVars, dbVars>>

\* fastVoteState.nextState
FastVoteNext ==
    /\ state = "FastVote" /\ bpc = "idle" /\ nCalls < MaxCalls
    /\ Returns("Initial")
    /\ UNCHANGED <<baLock, isLeader, lockValue, period, hash, nWrites, trace>>
    /\ UNCHANGED <<quorumMet, nbVars, ncVars, cgVars, dxVars, dbVars>>

\* initialState.nextState: s.a.lock.Lock() inside the closure
InitialLockLeader ==
    /\ state = "Initial" /\ bpc = "idle" /\ nCalls < MaxCalls
    /\ baLock = "free"
    /\ baLock' = "w"
    /\ bpc' = "init_read"
    /\ UNCHANGED <<state, isLeader, lockValue, period, hash, nCalls, err, nWrites, trace>>
    /\ UNCHANGED <<quorumMet, nbVars, ncVars, cgVars, dxVars, dbVars>>

\* initialState.nextState: return !s.a.isLeader, deferred Unlock; the leader
\* goes straight to newPreCommitState
InitialReadLeader ==
    /\ bpc = "init_read"
    /\ trace' = Append(trace, Rec("isLeader", isLeader, NullBlockHash, NoVote))
    /\ baLock' = "free"
    /\ IF InitialProposes(isLeader)
         THEN /\ bpc' = "init_propose"
              /\ UNCHANGED <<state, nCalls, err>>
         ELSE Returns("PreCommit")
    /\ UNCHANGED <<isLeader, lockValue, period, hash, nWrites>>
    /\ UNCHANGED <<quorumMet, nbVars, ncVars, cgVars, dxVars, dbVars>>

\* initialState.nextState: hash := s.a.recv.ProposeBlock()
InitialProposeBlock(h) ==
    /\ bpc = "init_propose"
    /\ hash' = h
    /\ trace' = Append(trace, Rec("ProposeBlock", FALSE, h, NoVote))
    /\ bpc' = "init_lock"
    /\ UNCHANGED <<state, baLock, isLeader, lockValue, period, nCalls, err, nWrites>>
    /\ UNCHANGED <<quorumMet, nbVars, ncVars, cgVars, dxVars, dbVars>>

\* initialState.nextState: s.a.lock.Lock() before the vote
InitialLock ==
    /\ bpc = "init_lock"
    /\ baLock = "free"
    /\ baLock' = "w"
    /\ bpc' = "init_vote"
    /\ UNCHANGED <<state, isLeader, lockValue, period, hash, nCalls, err, nWrites, trace>>
    /\ UNCHANGED <<quorumMet, nbVars, ncVars, cgVars, dxVars, dbVars>>

\* initialState.nextState: ProposeVote(NewVote(VoteInit, hash, period)),
\* return newPreCommitState, deferred Unlock
InitialProposeVote ==
    /\ bpc = "init_vote"
    /\ trace' = Append(trace, Rec("ProposeVote", FALSE, NullBlockHash,
                                  NewVote("Init", hash, VotePeriod(period))))
    /\ baLock' = "free"
    /\ Returns("PreCommit")
    /\ UNCHANGED <<isLeader, lockValue, period, hash, nWrites>>
    /\ UNCHANGED <<quorumMet, nbVars, ncVars, cgVars, dxVars, dbVars>>

\* preCommitState.nextState: s.a.lock.RLock()
PreCommitRLock ==
    /\ state = "PreCommit" /\ bpc = "idle" /\ nCalls < MaxCalls
    /\ baLock = "free"
    /\ baLock' = "r"
    /\ bpc' = "pre_vote"
    /\ UNCHANGED <<state, isLeader, lockValue, period, hash, nCalls, err, nWrites, trace>>
    /\ UNCHANGED <<quorumMet, nbVars, ncVars, cgVars, dxVars, dbVars>>

\* preCommitState.nextState: the PreCom vote, for leaderBlockHash() (h: what
\* the leader selector returns) or for lockValue; return newCommitState,
\* deferred RUnlock
PreCommitVote(h) ==
    /\ bpc = "pre_vote"
    /\ IF PreCommitUsesLeader(lockValue)
         THEN trace' = trace \o
                <<Rec("leaderBlockHash", FALSE, h, NoVote),
                  Rec("ProposeVote", FALSE, NullBlockHash,
                      NewVote("PreCom", h, VotePeriod(period)))>>
         ELSE /\ h = NullBlockHash
              /\ trace' = Append(trace, Rec("ProposeVote", FALSE, NullBlockHash,
                                   NewVote("PreCom", lockValue, VotePeriod(period))))
    /\ baLock' = "free"
    /\ Returns("Commit")
    /\ UNCHANGED <<isLeader, lockValue, period, hash, nWrites>>
    /\ UNCHANGED <<quorumMet, nbVars, ncVars, cgVars, dxVars, dbVars>>

\* commitState.nextState: s.a.lock.Lock()
CommitLock ==
    /\ state = "Commit" /\ bpc = "idle" /\ nCalls < MaxCalls
    /\ baLock = "free"
    /\ baLock' = "w"
    /\ bpc' = "com_vote"
    /\ UNCHANGED <<state, isLeader, lockValue, period, hash, nCalls, err, nWrites, trace>>
    /\ UNCHANGED <<quorumMet, nbVars, ncVars, cgVars, dxVars, dbVars>>

\* commitState.nextState: ProposeVote(NewVote(VoteCom, lockValue, period)),
\* return newForwardState, deferred Unlock
CommitVote ==
    /\ bpc = "com_vote"
    /\ trace' = Append(trace, Rec("ProposeVote", FALSE, NullBlockHash,
                          NewVote("Com", CommitHash(lockValue), VotePeriod(period))))
    /\ baLock' = "free"
    /\ Returns("Forward")
    /\ UNCHANGED <<isLeader, lockValue, period, hash, nWrites>>
    /\ UNCHANGED <<quorumMet, nbVars, ncVars, cgVars, dxVars, dbVars>>

\* a forward state that returns itself
ForwardNextStays ==
    /\ state = "Forward" /\ bpc = "idle" /\ nCalls < MaxCalls
    /\ Returns("Forward")
    /\ UNCHANGED <<baLock, isLeader, lockValue, period, hash, nWrites, trace>>
    /\ UNCHANGED <<quorumMet, nbVars, ncVars, cgVars, dxVars, dbVars>>

\* forwardState.nextState
ForwardNext ==
    /\ state = "Forward" /\ bpc = "idle" /\ nCalls < MaxCalls
    /\ Returns("PullVote")
    /\ UNCHANGED <<baLock, isLeader, lockValue, period, hash, nWrites, trace>>
    /\ UNCHANGED <<quorumMet, nbVars, ncVars, cgVars, dxVars, dbVars>>

\* pullVoteState.nextState: return s, nil
PullVoteNext ==
    /\ state = "PullVote" /\ bpc = "idle" /\ nCalls < MaxCalls
    /\ Returns("PullVote")
    /\ UNCHANGED <<baLock, isLeader, lockValue, period, hash, nWrites, trace>>
    /\ UNCHANGED <<quorumMet, nbVars, ncVars, cgVars, dxVars, dbVars>>

\* another thread of the agreement sets isLeader under s.a.lock
EnvSetLeader(b) ==
    /\ baLock = "free"
    /\ nWrites < MaxWrites
    /\ nWrites' = nWrites + 1
    /\ b # isLeader
    /\ isLeader' = b
    /\ UNCHANGED <<state, bpc, baLock, lockValue, period, hash, nCalls, err, trace>>
    /\ UNCHANGED <<quorumMet, nbVars, ncVars, cgVars, dxVars, dbVars>>

\* another thread of the agreement sets lockValue under s.a.lock
EnvSetLockValue(h) ==
    /\ baLock = "free"
    /\ nWrites < MaxWrites
    /\ nWrites' = nWrites + 1
    /\ h # lockValue
    /\ lockValue' = h
    /\ UNCHANGED <<state, bpc, baLock, isLeader, period, hash, nCalls, err, trace>>
    /\ UNCHANGED <<quorumMet, nbVars, ncVars, cgVars, dxVars, dbVars>>

\* another thread of the agreement sets period under s.a.lock
EnvSetPeriod(p) ==
    /\ baLock = "free"
    /\ nWrites < MaxWrites
    /\ nWrites' = nWrites + 1
    /\ p # period
    /\ period' = p
    /\ UNCHANGED <<state, bpc, baLock, isLeader, lockValue, hash, nCalls, err, trace>>
    /\ UNCHANGED <<quorumMet, nbVars, ncVars, cgVars, dxVars, dbVars>>

\* the vote counting of the agreement, which lives outside the state machine,
\* gains or loses a quorum; no nextState reads it
EnvSetQuorum(b) ==
    /\ baLock = "free"
    /\ nWrites < MaxWrites
    /\ nWrites' = nWrites + 1
    /\ b # quorumMet
    /\ quorumMet' = b
    /\ UNCHANGED <<state, bpc, baLock, isLeader, lockValue, period, hash, nCalls, err, trace>>
    /\ UNCHANGED <<nbVars, ncVars, cgVars, dxVars, dbVars>>

(***************************************************************************)
(* The committee cache: NodeSetCache.                                      *)
(*                                                                         *)
(* cache.lock is a RWMutex: get and GetPublicKey run under RLock, update   *)
(* and Purge under Lock, each from its first statement to its return, so   *)
(* each is one step.  Exists, GetNodeSet and GetNotarySet call get and,    *)
(* after it has returned a miss and released the lock, update: two steps   *)
(* between which the other callers run.  The notary subset of a snapshot   *)
(* (NodeSet.GetSubSet) is left out: no operation of the cache reads it.    *)
(***************************************************************************)
Rounds == 0..MaxRound
\* two threads call the cache
Callers == {1, 2}

\* the public keys known to the provider; key 3 is in no round's node set
Keys == {1, 2, 3}

\* types.NewNodeID(key): the id derived from a public key
NewNodeID(key) == 100 + key
NodeIDs == {NewNodeID(k) : k \in Keys}

\* a []crypto.PublicKey value: the nil slice, or a list of keys
NilKeySet == [isNil |-> TRUE, keys |-> <<>>]
KeySet(ks) == [isNil |-> FALSE, keys |-> ks]

\* nsIntf.NodeSet(round): the provider answers nil for round 1, an empty
\* list for round 2, and lists a key twice for round 6
NodeSet(round) ==
    CASE round = 0 -> KeySet(<<1, 2>>)
      [] round = 1 -> NilKeySet
      [] round = 2 -> KeySet(<<>>)
      [] round = 3 -> KeySet(<<2>>)
      [] round = 4 -> KeySet(<<2>>)
      [] round = 5 -> KeySet(<<1>>)
      [] round = 6 -> KeySet(<<2, 2>>)
      [] OTHER -> KeySet(<<1, 2>>)

\* common.Hash{}
ZeroHash == 0

\* nsIntf.CRS(round): not yet known for round 3
CRS(round) == IF round = 3 THEN ZeroHash ELSE round + 1

\* a nil *types.Config
NilConfig == [isNil |-> TRUE, notarySetSize |-> 0]

\* nsIntf.Configuration(round): not yet known for round 4
Configuration(round) ==
    IF round = 4 THEN NilConfig ELSE [isNil |-> FALSE, notarySetSize |-> 1]

\* the ids of the keys of a list
IDsOf(keys) == {NewNodeID(keys[i]) : i \in 1..Len(keys)}

\* a loop over keySet that makes the missing records and counts nothing
AddKeysOnce(pool, keys) ==
    [n \in DOMAIN pool \cup IDsOf(keys) |->
        IF n \in DOMAIN pool THEN pool[n]
        ELSE [pubKey |-> n - 100, refCnt |-> 1]]

\* update: the loop over keySet, one refCnt++ (or one new record with
\* refCnt 1) per element of the list
RECURSIVE AddKeys(_, _)
AddKeys(pool, keys) ==
    IF keys = <<>> THEN pool
    ELSE LET key == Head(keys)
             nID == NewNodeID(key)
         IN  AddKeys(IF nID \in DOMAIN pool
                       THEN [pool EXCEPT ![nID].refCnt = @ + 1]
                       ELSE (nID :> [pubKey |-> key, refCnt |-> 1]) @@ pool,
                     Tail(keys))

\* a release that keeps the records whose count has reached zero
ReleaseKeepsZero(pool, ids) ==
    [n \in DOMAIN pool |->
        IF n \in ids THEN [pool[n] EXCEPT !.refCnt = @ - 1] ELSE pool[n]]

\* Purge and the sweep of update: rec.refCnt-- for every node of the node
\* set, and delete(cache.keyPool, nID) when the count reaches zero
Release(pool, ids) ==
    LET dec == [n \in DOMAIN pool |->
                  IF n \in ids THEN [pool[n] EXCEPT !.refCnt = @ - 1] ELSE pool[n]]
    IN  [n \in {x \in DOMAIN pool : dec[x].refCnt # 0} |-> dec[n]]

\* the number of rounds update keeps behind the updated one
RetainedRounds == 5

\* the test of the sweep in signed arithmetic
SweepsSigned(round, rID) == round - rID > RetainedRounds

\* update: `round-rID <= 5` is false.  Both are uint64: when rID > round the
\* difference wraps to 2^64 - (rID - round), which is above 5 for every
\* pair of rounds less than 2^64 - 5 apart
Sweeps(round, rID) ==
    IF rID > round THEN TRUE ELSE round - rID > RetainedRounds

\* update: the loop over cache.rounds that purges the rounds out of range;
\* the rounds are visited in any order and the result does not depend on it
RECURSIVE Sweep(_, _, _, _)
Sweep(rs, pool, round, todo) ==
    IF todo = {} THEN [rounds |-> rs, keyPool |-> pool]
    ELSE LET rID == CHOOSE x \in todo : TRUE
         IN  IF Sweeps(round, rID)
               THEN Sweep([x \in DOMAIN rs \ {rID} |-> rs[x]],
                          Release(pool, rs[rID].nodeSet), round, todo \ {rID})
               ELSE Sweep(rs, pool, round, todo \ {rID})

\* the result of a step on the cache
Result(rs, pool, e) == [rounds |-> rs, keyPool |-> pool, err |-> e]

\* cache.update(round), from Lock to the deferred Unlock
Update(rs, pool, round) ==
    LET keySet == NodeSet(round)
        crs == CRS(round)
        pooled == AddKeys(pool, keySet.keys)
        cfg == Configuration(round)
        nIDs == [crs |-> crs, nodeSet |-> IDsOf(keySet.keys)]
        cached == (round :> nIDs) @@ rs
        swept == Sweep(cached, pooled, round, DOMAIN cached)
    IN  IF keySet.isNil THEN Result(rs, pool, "ErrNodeSetNotReady")
        ELSE IF crs = ZeroHash THEN Result(rs, pool, "ErrCRSNotReady")
        ELSE IF cfg.isNil THEN Result(rs, pooled, "ErrConfigurationNotReady")
        ELSE Result(swept.rounds, swept.keyPool, "nil")

\* cache.Purge(rID), from Lock to the deferred Unlock
PurgeRound(rs, pool, rID) ==
    IF rID \notin DOMAIN rs THEN Result(rs, pool, "nil")
    ELSE Result([x \in DOMAIN rs \ {rID} |-> rs[x]],
                Release(pool, rs[rID].nodeSet), "nil")

\* an Exists that looks the node up in the key pool
ExistsInPool(rs, pool, round, nodeID) == nodeID \in DOMAIN pool

\* Exists: _, exists = nIDs.nodeSet.IDs[nodeID]
ExistsIn(rs, pool, round, nodeID) == nodeID \in rs[round].nodeSet

\* cache.GetPublicKey(nodeID): whether the key pool has a record of the node
GetPublicKey(nodeID) == nodeID \in DOMAIN keyPool

\* the calls that read a round and populate it on a miss
LookupOps == {"Exists", "GetNodeSet", "GetNotarySet"}

\* a caller's record: pc is "miss" between a get that missed and the update
\* that follows, with the round asked for, and "idle" otherwise.  Exists,
\* GetNodeSet and GetNotarySet run the same statements up to their return:
\* which of them the caller is in, and the node it asks about, bear on the
\* returned values only and are drawn where the call returns
Call(pc, round) == [pc |-> pc, round |-> round]
Idle == Call("idle", 0)

\* a returned call: its name, the final value of its variable `exists`
\* (Exists) or `exist` (Purge), false for the other calls, and its error
Returned(op, exists, e) == [op |-> op, exists |-> exists, err |-> e]

\* the node a call is about: only Exists takes one
NodeArgs(op) == IF op = "Exists" THEN NodeIDs ELSE {0}

InitNCVars ==
    /\ rounds = <<>>
    /\ keyPool = <<>>
    /\ call = [c \in Callers |-> Idle]
    /\ last = Returned("none", FALSE, "nil")
    /\ nOps = 0

\* Exists / GetNodeSet / GetNotarySet: cache.get(round) under RLock; on a
\* hit the call returns from the snapshot, on a miss it goes on to update
Get(c, op, round, nodeID) ==
    /\ call[c].pc = "idle"
    /\ nOps < MaxOps
    /\ nOps' = nOps + 1
    /\ IF round \in DOMAIN rounds
         THEN /\ last' = Returned(op,
                                  op = "Exists" /\ ExistsIn(rounds, keyPool, round, nodeID),
                                  "nil")
              /\ UNCHANGED call
         ELSE /\ call' = [call EXCEPT ![c] = Call("miss", round)]
              /\ UNCHANGED last
    /\ UNCHANGED <<rounds, keyPool>>
    /\ UNCHANGED <<nbVars, baVars, cgVars, dxVars, dbVars>>

\* Exists / GetNodeSet / GetNotarySet after a miss: cache.update(round) and
\* the return; a failed update is returned as the call's error
UpdateAfterMiss(c, op, nodeID) ==
    /\ call[c].pc = "miss"
    /\ LET round == call[c].round
           res == Update(rounds, keyPool, round)
       IN  /\ rounds' = res.rounds
           /\ keyPool' = res.keyPool
           /\ last' = Returned(op,
                               /\ res.err = "nil"
                               /\ op = "Exists"
                               /\ ExistsIn(res.rounds, res.keyPool, round, nodeID),
                               res.err)
    /\ call' = [call EXCEPT ![c] = Idle]
    /\ UNCHANGED nOps
    /\ UNCHANGED <<nbVars, baVars, cgVars, dxVars, dbVars>>

\* cache.Touch(round): update, whether or not the round is cached
Touch(c, round) ==
    /\ call[c].pc = "idle"
    /\ nOps < MaxOps
    /\ nOps' = nOps + 1
    /\ LET res == Update(rounds, keyPool, round)
       IN  /\ rounds' = res.rounds
           /\ keyPool' = res.keyPool
           /\ last' = Returned("Touch", FALSE, res.err)
    /\ UNCHANGED call
    /\ UNCHANGED <<nbVars, baVars, cgVars, dxVars, dbVars>>

\* cache.Purge(rID)
Purge(c, rID) ==
    /\ call[c].pc = "idle"
    /\ nOps < MaxOps
    /\ nOps' = nOps + 1
    /\ LET res == PurgeRound(rounds, keyPool, rID)
       IN  /\ rounds' = res.rounds
           /\ keyPool' = res.keyPool
           /\ last' = Returned("Purge", rID \in DOMAIN rounds, "nil")
    /\ UNCHANGED call
    /\ UNCHANGED <<nbVars, baVars, cgVars, dxVars, dbVars>>

(***************************************************************************)
(* The canonical hashes, the signer and the verify functions.              *)
(*                                                                         *)
(* A byte string is a sequence of numbers.  A fixed-width field (an 8-byte *)
(* little-endian integer, a 32-byte node id or hash given from outside) is *)
(* one element; a []byte of variable length is a sequence of its bytes.    *)
(* crypto.Keccak256Hash is taken as collision free: the digest of a byte   *)
(* string is that string between two marks, so digests are equal exactly   *)
(* when the hashed concatenations are.  An ECDSA signature names the key   *)
(* and the digest it was made for; recovering a key from a well-formed     *)
(* signature and another digest gives a key nobody holds.                  *)
(***************************************************************************)
SignerKeys == 1..NumSignerKeys

\* the key recovered from a signature that was not made for the digest
GarbageKey == 0

\* binary.LittleEndian.PutUint64(buf, n)
PutUint64(n) == <<n>>

\* crypto.Keccak256Hash(data...): the arguments are hashed as one string
Keccak256Hash(data) == <<-1>> \o data \o <<-2>>

\* common.Hash{} as bytes
EmptyHash == <<0>>

\* a crypto.Signature
Signature(type, bytes) == [Type |-> type, Signature |-> bytes]
NoSignature == Signature("", <<>>)

\* prvKey.Sign(hash[:])
Sign(key, digest) == Signature("ecdsa", <<key>> \o digest)

\* crypto.SigToPub(digest, signature): an error for a signature that is not a
\* well-formed ECDSA signature, else the recovered key
SigToPub(digest, sig) ==
    IF sig.Type # "ecdsa" \/ sig.Signature = <<>>
      THEN [err |-> "ErrSigToPub", key |-> GarbageKey]
      ELSE [err |-> "nil",
            key |-> IF Tail(sig.Signature) = digest
                      THEN Head(sig.Signature) ELSE GarbageKey]

\* HashPosition(position)
HashPosition(position) ==
    Keccak256Hash(PutUint64(position.Round) \o PutUint64(position.Height))

\* hashWitness(witness)
hashWitness(witness) ==
    Keccak256Hash(PutUint64(witness.Height) \o witness.Data)

\* a time.Time: an instant and a location
Time(sec, loc) == [sec |-> sec, loc |-> loc]

\* t.UTC(): the same instant with the location set to UTC
UTC(t) == Time(t.sec, "UTC")

\* t.MarshalBinary(): version, seconds, nanoseconds, zone offset in minutes
\* (-1, written 0xffff, for UTC)
MarshalBinary(t) ==
    <<1>> \o PutUint64(t.sec) \o <<0>> \o <<IF t.loc = "UTC" THEN 65535 ELSE 480>>

\* a types.Block; Randomness is not read by any function here
Block(proposerID, parentHash, position, timestamp, payload, witness) ==
    [ProposerID |-> proposerID, ParentHash |-> parentHash, Hash |-> EmptyHash,
     Position |-> position, Timestamp |-> timestamp, Payload |-> payload,
     PayloadHash |-> EmptyHash, Witness |-> witness,
     Signature |-> NoSignature, CRSSignature |-> NoSignature]

\* types.Block{}
ZeroBlock ==
    Block(0, EmptyHash, [Round |-> 0, Height |-> 0], Time(0, "UTC"), <<>>,
          [Height |-> 0, Data |-> <<>>])

\* a block hash that leaves the parent hash out
HashBlockNoParent(b) ==
    Keccak256Hash(<<b.ProposerID>>
                  \o HashPosition(b.Position)
                  \o MarshalBinary(UTC(b.Timestamp))
                  \o b.PayloadHash
                  \o hashWitness(b.Witness))

\* HashBlock(block); MarshalBinary does not fail for a UTC time
HashBlock(b) ==
    Keccak256Hash(<<b.ProposerID>>
                  \o b.ParentHash
                  \o HashPosition(b.Position)
                  \o MarshalBinary(UTC(b.Timestamp))
                  \o b.PayloadHash
                  \o hashWitness(b.Witness))

\* VerifyBlockSignatureWithoutPayload(b)
VerifyBlockSignatureWithoutPayload(b) ==
    LET digest == HashBlock(b)
        rec == SigToPub(b.Hash, b.Signature)
    IN  IF digest # b.Hash THEN "ErrIncorrectHash"
        ELSE IF rec.err # "nil" THEN rec.err
        ELSE IF b.ProposerID # NewNodeID(rec.key) THEN "ErrIncorrectSignature"
        ELSE "nil"

\* a block verification that trusts PayloadHash
VerifyBlockSignatureTrustsPayloadHash(b) ==
    VerifyBlockSignatureWithoutPayload(b)

\* VerifyBlockSignature(b)
VerifyBlockSignature(b) ==
    IF Keccak256Hash(b.Payload) # b.PayloadHash THEN "ErrIncorrectHash"
    ELSE VerifyBlockSignatureWithoutPayload(b)

\* Signer.SignBlock(b) of the signer made by NewSigner(key): the block it
\* leaves behind (prvKey.Sign does not fail)
SignBlockOf(key, b) ==
    LET b1 == [b EXCEPT !.ProposerID = NewNodeID(key),
                        !.PayloadHash = Keccak256Hash(b.Payload)]
        b2 == [b1 EXCEPT !.Hash = HashBlock(b1)]
    IN  [b2 EXCEPT !.Signature = Sign(key, b2.Hash)]

\* the result of a call: its name, its error and, for the functions that
\* return one, its boolean
Out(op, e, ok) == [op |-> op, err |-> e, ok |-> ok]

\* the values the callers give to the fields of a block
Payloads == {<<>>, <<7>>}
BlockRounds == {0, 1}
Heights == {0, 1}
Times == {Time(0, "UTC"), Time(0, "Local"), Time(1, "UTC")}
ParentHashes == {EmptyHash, <<5>>}
Witnesses == {[Height |-> 0, Data |-> <<>>], [Height |-> 1, Data |-> <<>>],
              [Height |-> 0, Data |-> <<3>>]}

\* the fields of a block that HashBlock covers, with the values a change
\* may give them
FieldValues(f) ==
    CASE f = "Payload" -> Payloads
      [] f = "Position" -> [Round : BlockRounds, Height : Heights]
      [] f = "Timestamp" -> Times
      [] f = "Witness" -> Witnesses
      [] f = "ParentHash" -> ParentHashes
      [] f = "ProposerID" -> {NewNodeID(k) : k \in SignerKeys}
BlockFields ==
    {"Payload", "Position", "Timestamp", "Witness", "ParentHash", "ProposerID"}

\* a caller fills in a block to be signed
NewBlock(payload, round, timestamp) ==
    /\ block = ZeroBlock
    /\ block' = Block(0, EmptyHash, [Round |-> round, Height |-> 0], timestamp,
                      payload, [Height |-> 0, Data |-> <<>>])
    /\ UNCHANGED <<signedBlock, nEdits, out>>
    /\ UNCHANGED <<dxVars, dbVars, nbVars, baVars, ncVars, voteVars, crsVars, msg, rh>>

\* Signer.SignBlock(b)
SignBlock(key) ==
    /\ signedBlock = ZeroBlock
    /\ block' = SignBlockOf(key, block)
    /\ signedBlock' = block'
    /\ out' = Out("SignBlock", "nil", FALSE)
    /\ UNCHANGED nEdits
    /\ UNCHANGED <<dxVars, dbVars, nbVars, baVars, ncVars, voteVars, crsVars, msg, rh>>

\* somebody changes one hashed field of the signed block
SetBlockField(f, v) ==
    /\ signedBlock # ZeroBlock
    /\ nEdits < MaxEdits
    /\ nEdits' = nEdits + 1
    /\ v # block[f]
    /\ block' = [block EXCEPT ![f] = v]
    /\ UNCHANGED <<signedBlock, out>>
    /\ UNCHANGED <<dxVars, dbVars, nbVars, baVars, ncVars, voteVars, crsVars, msg, rh>>

\* somebody recomputes PayloadHash of the changed block
SetPayloadHash ==
    /\ signedBlock # ZeroBlock
    /\ nEdits < MaxEdits
    /\ nEdits' = nEdits + 1
    /\ block.PayloadHash # Keccak256Hash(block.Payload)
    /\ block' = [block EXCEPT !.PayloadHash = Keccak256Hash(block.Payload)]
    /\ UNCHANGED <<signedBlock, out>>
    /\ UNCHANGED <<dxVars, dbVars, nbVars, baVars, ncVars, voteVars, crsVars, msg, rh>>

\* somebody recomputes Hash of the changed block
SetHash ==
    /\ signedBlock # ZeroBlock
    /\ nEdits < MaxEdits
    /\ nEdits' = nEdits + 1
    /\ block.Hash # HashBlock(block)
    /\ block' = [block EXCEPT !.Hash = HashBlock(block)]
    /\ UNCHANGED <<signedBlock, out>>
    /\ UNCHANGED <<dxVars, dbVars, nbVars, baVars, ncVars, voteVars, crsVars, msg, rh>>

\* somebody replaces the signature: by the signature of another key over the
\* block's digest, by a signature with a changed byte, or by an empty one
SetSignature(sig) ==
    /\ signedBlock # ZeroBlock
    /\ nEdits < MaxEdits
    /\ nEdits' = nEdits + 1
    /\ sig # block.Signature
    /\ block' = [block EXCEPT !.Signature = sig]
    /\ UNCHANGED <<signedBlock, out>>
    /\ UNCHANGED <<dxVars, dbVars, nbVars, baVars, ncVars, voteVars, crsVars, msg, rh>>

\* the signatures SetSignature may write into a message with the given digest
\* and signature
OtherSignatures(digest, sig) ==
    {Sign(k, digest) : k \in SignerKeys}
      \cup {NoSignature}
      \cup (IF sig.Signature = <<>> THEN {}
            ELSE {Signature(sig.Type, <<GarbageKey>> \o Tail(sig.Signature))})

\* VerifyBlockSignature(block)
VerifyBlock ==
    /\ block # ZeroBlock
    /\ out' = Out("VerifyBlockSignature", VerifyBlockSignature(block), FALSE)
    /\ UNCHANGED <<block, signedBlock, nEdits>>
    /\ UNCHANGED <<dxVars, dbVars, nbVars, baVars, ncVars, voteVars, crsVars, msg, rh>>

(***************************************************************************)
(* Votes.                                                                  *)
(***************************************************************************)
VoteTypes == {"VoteInit", "VotePreCom", "VoteCom", "VoteFast", "VoteFastCom"}

\* byte(vote.Type)
VoteTypeByte(t) ==
    CASE t = "VoteInit" -> 0
      [] t = "VotePreCom" -> 1
      [] t = "VoteCom" -> 2
      [] t = "VoteFast" -> 3
      [] t = "VoteFastCom" -> 4

\* a types.Vote with its header fields
Vote(proposerID, type, blockHash, per, position, partialSignature) ==
    [ProposerID |-> proposerID, Type |-> type, BlockHash |-> blockHash,
     Period |-> per, Position |-> position,
     PartialSignature |-> partialSignature, Signature |-> NoSignature]

\* types.Vote{}
ZeroVote ==
    Vote(0, "VoteInit", EmptyHash, 0, [Round |-> 0, Height |-> 0], NoSignature)

\* a vote hash that leaves the type byte out
HashVoteNoType(v) ==
    Keccak256Hash(<<v.ProposerID>>
                  \o v.BlockHash
                  \o PutUint64(v.Period)
                  \o HashPosition(v.Position)
                  \o v.PartialSignature.Signature)

\* HashVote(vote)
HashVote(v) ==
    Keccak256Hash(<<v.ProposerID>>
                  \o v.BlockHash
                  \o PutUint64(v.Period)
                  \o HashPosition(v.Position)
                  \o v.PartialSignature.Signature
                  \o <<VoteTypeByte(v.Type)>>)

\* the (bool, error) of a verify function, from the recovered key
VerifyRecovered(proposerID, rec) ==
    IF rec.err # "nil" THEN [ok |-> FALSE, err |-> rec.err]
    ELSE IF proposerID # NewNodeID(rec.key) THEN [ok |-> FALSE, err |-> "nil"]
    ELSE [ok |-> TRUE, err |-> "nil"]

\* VerifyVoteSignature(vote)
VerifyVoteSignature(v) ==
    VerifyRecovered(v.ProposerID, SigToPub(HashVote(v), v.Signature))

\* Signer.SignVote(v): the vote it leaves behind
SignVoteOf(key, v) ==
    LET v1 == [v EXCEPT !.ProposerID = NewNodeID(key)]
    IN  [v1 EXCEPT !.Signature = Sign(key, HashVote(v1))]

\* the header fields and the partial signature of a vote, with the values a
\* change may give them
VoteFieldValues(f) ==
    CASE f = "ProposerID" -> {NewNodeID(k) : k \in SignerKeys}
      [] f = "BlockHash" -> {EmptyHash, <<5>>}
      [] f = "Period" -> {0, 1}
      [] f = "Position" -> [Round : {0, 1}, Height : {0, 1}]
      [] f = "Type" -> VoteTypes
      [] f = "PartialSignature" -> {Signature("bls", <<>>), Signature("bls", <<1>>),
                                    Signature("bls", <<1, 1>>), Signature("", <<1>>)}
VoteFields ==
    {"ProposerID", "BlockHash", "Period", "Position", "Type", "PartialSignature"}

\* a caller fills in a vote to be signed
MakeVote(type, partialSignature) ==
    /\ voteMsg = ZeroVote
    /\ signedVote = ZeroVote
    /\ voteMsg' = Vote(0, type, <<5>>, 1, [Round |-> 0, Height |-> 1], partialSignature)
    /\ UNCHANGED <<signedVote, nEdits, out>>
    /\ UNCHANGED <<dxVars, dbVars, nbVars, baVars, ncVars, blkVars, crsVars, msg, rh>>

\* Signer.SignVote(v)
SignVote(key) ==
    /\ signedVote = ZeroVote
    /\ voteMsg' = SignVoteOf(key, voteMsg)
    /\ signedVote' = voteMsg'
    /\ out' = Out("SignVote", "nil", FALSE)
    /\ UNCHANGED nEdits
    /\ UNCHANGED <<dxVars, dbVars, nbVars, baVars, ncVars, blkVars, crsVars, msg, rh>>

\* somebody changes one field of the signed vote
SetVoteField(f, v) ==
    /\ signedVote # ZeroVote
    /\ nEdits < MaxEdits
    /\ nEdits' = nEdits + 1
    /\ v # voteMsg[f]
    /\ voteMsg' = [voteMsg EXCEPT ![f] = v]
    /\ UNCHANGED <<signedVote, out>>
    /\ UNCHANGED <<dxVars, dbVars, nbVars, baVars, ncVars, blkVars, crsVars, msg, rh>>

\* somebody replaces the signature of the vote
SetVoteSignature(sig) ==
    /\ signedVote # ZeroVote
    /\ nEdits < MaxEdits
    /\ nEdits' = nEdits + 1
    /\ sig # voteMsg.Signature
    /\ voteMsg' = [voteMsg EXCEPT !.Signature = sig]
    /\ UNCHANGED <<signedVote, out>>
    /\ UNCHANGED <<dxVars, dbVars, nbVars, baVars, ncVars, blkVars, crsVars, msg, rh>>

\* VerifyVoteSignature(vote)
VerifyVote ==
    /\ signedVote # ZeroVote
    /\ LET r == VerifyVoteSignature(voteMsg)
       IN  out' = Out("VerifyVoteSignature", r.err, r.ok)
    /\ UNCHANGED <<voteMsg, signedVote, nEdits>>
    /\ UNCHANGED <<dxVars, dbVars, nbVars, baVars, ncVars, blkVars, crsVars, msg, rh>>

(***************************************************************************)
(* The CRS signature of a block.                                           *)
(***************************************************************************)
\* the first round whose CRS signature is a threshold signature
dkgDelayRound == 1

\* the threshold key a configured blsSigner signs with, and the group public
\* keys a verifier may hold
SignerBLSKey == 11
BLSKeys == {SignerBLSKey, 12}
CRSs == {<<8>>, <<9>>}

\* a CRS hash that always binds the proposer
hashCRSWithProposer(b, c) ==
    Keccak256Hash(c \o HashPosition(b.Position) \o <<b.ProposerID>>)

\* hashCRS(block, crs)
hashCRS(b, c) ==
    LET hashPos == HashPosition(b.Position)
    IN  IF b.Position.Round < dkgDelayRound
          THEN Keccak256Hash(c \o hashPos \o <<b.ProposerID>>)
          ELSE Keccak256Hash(c \o hashPos)

\* a threshold signature, and pubKey.VerifySignature(hash, signature) of a
\* group public key
BLSSign(key, digest) == Signature("bls", <<key>> \o digest)
VerifySignature(pubKey, digest, sig) == sig.Signature = <<pubKey>> \o digest

\* typesDKG.NodePublicKeys: nil, or the group public keys by node
NilNodePublicKeys == [isNil |-> TRUE, PublicKeys |-> <<>>]
NodePublicKeys ==
    {NilNodePublicKeys}
      \cup {[isNil |-> FALSE, PublicKeys |-> f] :
              f \in UNION {[D -> BLSKeys] :
                             D \in SUBSET {NewNodeID(1), NewNodeID(2)}}}

\* a verification that takes any known group key for the proposer's
VerifyCRSSignatureAnyKey(b, c, npks) ==
    LET digest == hashCRS(b, c)
    IN  IF b.Position.Round < dkgDelayRound
          THEN b.CRSSignature.Signature = digest
        ELSE IF npks.isNil THEN FALSE
        ELSE \E n \in DOMAIN npks.PublicKeys :
                 VerifySignature(npks.PublicKeys[n], digest, b.CRSSignature)

\* VerifyCRSSignature(block, crs, npks)
VerifyCRSSignature(b, c, npks) ==
    LET digest == hashCRS(b, c)
    IN  IF b.Position.Round < dkgDelayRound
          THEN b.CRSSignature.Signature = digest
        ELSE IF npks.isNil THEN FALSE
        ELSE IF b.ProposerID \notin DOMAIN npks.PublicKeys THEN FALSE
        ELSE VerifySignature(npks.PublicKeys[b.ProposerID], digest, b.CRSSignature)

\* the result of a SignCRS call: the block it leaves, the error, and whether
\* blsSign was called
SignCRSResult(b, e, called) == [b |-> b, err |-> e, called |-> called]

\* a SignCRS without the check of the proposer
SignCRSAnyProposer(key, b, c, bls, fails) ==
    IF b.Position.Round < dkgDelayRound
      THEN SignCRSResult([b EXCEPT !.CRSSignature = Signature("bls", hashCRS(b, c))],
                         "nil", FALSE)
    ELSE IF bls = 0 THEN SignCRSResult(b, "ErrNoBLSSigner", FALSE)
    ELSE IF fails THEN SignCRSResult([b EXCEPT !.CRSSignature = NoSignature],
                                     "ErrBLSSign", TRUE)
    ELSE SignCRSResult([b EXCEPT !.CRSSignature = BLSSign(bls, hashCRS(b, c))],
                       "nil", TRUE)

\* a SignCRS that asks the threshold signer whenever one is configured
SignCRSUngated(key, b, c, bls, fails) ==
    IF b.ProposerID # NewNodeID(key)
      THEN SignCRSResult(b, "ErrInvalidProposerID", FALSE)
    ELSE IF bls = 0
      THEN SignCRSResult([b EXCEPT !.CRSSignature = Signature("bls", hashCRS(b, c))],
                         "nil", FALSE)
    ELSE SignCRSResult([b EXCEPT !.CRSSignature = BLSSign(bls, hashCRS(b, c))],
                       "nil", TRUE)

\* Signer.SignCRS(b, crs) of the signer with the given key and blsSign (0 for
\* nil); fails tells whether the threshold signer returns an error
SignCRSOf(key, b, c, bls, fails) ==
    IF b.ProposerID # NewNodeID(key)
      THEN SignCRSResult(b, "ErrInvalidProposerID", FALSE)
    ELSE IF b.Position.Round < dkgDelayRound
      THEN SignCRSResult([b EXCEPT !.CRSSignature = Signature("bls", hashCRS(b, c))],
                         "nil", FALSE)
    ELSE IF bls = 0 THEN SignCRSResult(b, "ErrNoBLSSigner", FALSE)
    ELSE IF fails THEN SignCRSResult([b EXCEPT !.CRSSignature = NoSignature],
                                     "ErrBLSSign", TRUE)
    ELSE SignCRSResult([b EXCEPT !.CRSSignature = BLSSign(bls, hashCRS(b, c))],
                       "nil", TRUE)

\* a proposer fills in a block for a round
ProposeBlock(round, proposerID) ==
    /\ block = ZeroBlock
    /\ block' = Block(proposerID, <<5>>, [Round |-> round, Height |-> 1],
                      Time(1, "UTC"), <<7>>, [Height |-> 0, Data |-> <<>>])
    /\ UNCHANGED <<signedBlock, nEdits, out>>
    /\ UNCHANGED <<dxVars, dbVars, nbVars, baVars, ncVars, voteVars, crsVars, msg, rh>>

\* Signer.SetBLSSigner(signer)
SetBLSSigner(key, bls) ==
    /\ blsSign[key] # bls
    /\ blsSign' = [blsSign EXCEPT ![key] = bls]
    /\ UNCHANGED <<crsLog, blsCalls, blkVars, nEdits, out>>
    /\ UNCHANGED <<dxVars, dbVars, nbVars, baVars, ncVars, voteVars, msg, rh>>

\* Signer.SignCRS(b, crs)
SignCRS(key, c, fails) ==
    /\ block # ZeroBlock
    /\ nEdits < MaxEdits
    /\ nEdits' = nEdits + 1
    /\ LET r == SignCRSOf(key, block, c, blsSign[key], fails)
       IN  /\ block' = r.b
           /\ blsCalls' = IF r.called
                            THEN Append(blsCalls,
                                        [key |-> key, round |-> block.Position.Round,
                                         hash |-> hashCRS(block, c)])
                            ELSE blsCalls
           /\ crsLog' = Append(crsLog, [key |-> key, crs |-> c, err |-> r.err])
           /\ out' = Out("SignCRS", r.err, FALSE)
    /\ UNCHANGED <<signedBlock, blsSign>>
    /\ UNCHANGED <<dxVars, dbVars, nbVars, baVars, ncVars, voteVars, msg, rh>>

\* VerifyCRSSignature(block, crs, npks)
VerifyCRS(c, npks) ==
    /\ block # ZeroBlock
    /\ out' = Out("VerifyCRSSignature", "nil", VerifyCRSSignature(block, c, npks))
    /\ UNCHANGED <<blkVars, crsVars, nEdits>>
    /\ UNCHANGED <<dxVars, dbVars, nbVars, baVars, ncVars, voteVars, msg, rh>>

(***************************************************************************)
(* The DKG messages.                                                       *)
(***************************************************************************)
\* typesDKG.MPKReady, Finalize and Success: the same three fields and a
\* signature
DKGKinds == {"MPKReady", "Finalize", "Success"}
DKGMessage(mt, proposerID, round, reset) ==
    [kind |-> mt, ProposerID |-> proposerID, Round |-> round, Reset |-> reset,
     Signature |-> NoSignature]

\* hashDKGMPKReady(ready)
hashDKGMPKReady(ready) ==
    Keccak256Hash(<<ready.ProposerID>> \o PutUint64(ready.Round)
                                       \o PutUint64(ready.Reset))

\* hashDKGFinalize(final)
hashDKGFinalize(final) ==
    Keccak256Hash(<<final.ProposerID>> \o PutUint64(final.Round)
                                       \o PutUint64(final.Reset))

\* hashDKGSuccess(success)
hashDKGSuccess(success) ==
    Keccak256Hash(<<success.ProposerID>> \o PutUint64(success.Round)
                                         \o PutUint64(success.Reset))

\* the canonical hash of a message read as one of the three types
hashDKG(mt, m) ==
    CASE mt = "MPKReady" -> hashDKGMPKReady(m)
      [] mt = "Finalize" -> hashDKGFinalize(m)
      [] mt = "Success" -> hashDKGSuccess(m)

\* VerifyDKGMPKReadySignature, VerifyDKGFinalizeSignature and
\* VerifyDKGSuccessSignature of a message read as that type
VerifyDKGSignature(mt, m) ==
    VerifyRecovered(m.ProposerID, SigToPub(hashDKG(mt, m), m.Signature))

\* a typesDKG.PrivateShare
PrivateShare(proposerID, receiverID, round, reset, share) ==
    [kind |-> "PrivateShare", ProposerID |-> proposerID, ReceiverID |-> receiverID,
     Round |-> round, Reset |-> reset, PrivateShare |-> share,
     Signature |-> NoSignature]

\* hashDKGPrivateShare(prvShare)
hashDKGPrivateShare(prvShare) ==
    Keccak256Hash(<<prvShare.ProposerID>> \o <<prvShare.ReceiverID>>
                    \o PutUint64(prvShare.Round) \o PutUint64(prvShare.Reset)
                    \o prvShare.PrivateShare)

\* VerifyDKGPrivateShareSignature(prvShare)
VerifyDKGPrivateShareSignature(prvShare) ==
    VerifyRecovered(prvShare.ProposerID,
                    SigToPub(hashDKGPrivateShare(prvShare), prvShare.Signature))

\* a typesDKG.Complaint; IsNack tells whether it complains about a share
\* that never came
Complaint(proposerID, round, reset, prvShare, nack) ==
    [kind |-> "Complaint", ProposerID |-> proposerID, Round |-> round,
     Reset |-> reset, PrivateShare |-> prvShare, IsNack |-> nack,
     Signature |-> NoSignature]

\* hashDKGComplaint(complaint)
hashDKGComplaint(complaint) ==
    Keccak256Hash(<<complaint.ProposerID>> \o PutUint64(complaint.Round)
                    \o PutUint64(complaint.Reset)
                    \o hashDKGPrivateShare(complaint.PrivateShare))

\* a complaint verification that does not look at the embedded share
VerifyDKGComplaintSignatureOnly(complaint) ==
    IF complaint.Round # complaint.PrivateShare.Round
      THEN [ok |-> FALSE, err |-> "nil"]
    ELSE IF complaint.Reset # complaint.PrivateShare.Reset
      THEN [ok |-> FALSE, err |-> "nil"]
    ELSE VerifyRecovered(complaint.ProposerID,
                         SigToPub(hashDKGComplaint(complaint), complaint.Signature))

\* VerifyDKGComplaintSignature(complaint)
VerifyDKGComplaintSignature(complaint) ==
    IF complaint.Round # complaint.PrivateShare.Round
      THEN [ok |-> FALSE, err |-> "nil"]
    ELSE IF complaint.Reset # complaint.PrivateShare.Reset
      THEN [ok |-> FALSE, err |-> "nil"]
    ELSE LET own == VerifyRecovered(complaint.ProposerID,
                                    SigToPub(hashDKGComplaint(complaint),
                                             complaint.Signature))
         IN  IF ~own.ok THEN own
             ELSE IF ~complaint.IsNack
               THEN VerifyDKGPrivateShareSignature(complaint.PrivateShare)
             ELSE [ok |-> TRUE, err |-> "nil"]

DKGRounds == {0, 1}
DKGResets == {0, 1}

\* Signer.SignDKGMPKReady, SignDKGFinalize and SignDKGSuccess
SignDKG(mt, key, round, reset) ==
    /\ msg.kind = "none"
    /\ LET m == DKGMessage(mt, NewNodeID(key), round, reset)
       IN  msg' = [m EXCEPT !.Signature = Sign(key, hashDKG(mt, m))]
    /\ out' = Out("SignDKG", "nil", FALSE)
    /\ UNCHANGED nEdits
    /\ UNCHANGED <<dxVars, dbVars, nbVars, baVars, ncVars, blkVars, voteVars, crsVars, rh>>

\* one of the three verify functions is given the message
VerifyDKG(mt) ==
    /\ msg.kind \in DKGKinds
    /\ LET r == VerifyDKGSignature(mt, msg)
       IN  out' = Out("VerifyDKG" \o mt \o "Signature", r.err, r.ok)
    /\ UNCHANGED <<msg, nEdits>>
    /\ UNCHANGED <<dxVars, dbVars, nbVars, baVars, ncVars, blkVars, voteVars, crsVars, rh>>

\* Signer.SignDKGPrivateShare(prvShare)
SignDKGPrivateShare(key, round, reset) ==
    /\ msg.kind = "none"
    /\ LET m == PrivateShare(NewNodeID(key), NewNodeID(1), round, reset, <<4>>)
       IN  msg' = [m EXCEPT !.Signature = Sign(key, hashDKGPrivateShare(m))]
    /\ out' = Out("SignDKGPrivateShare", "nil", FALSE)
    /\ UNCHANGED nEdits
    /\ UNCHANGED <<dxVars, dbVars, nbVars, baVars, ncVars, blkVars, voteVars, crsVars, rh>>

\* Signer.SignDKGComplaint(complaint) on a complaint that embeds the share
SignDKGComplaint(key, round, reset, nack) ==
    /\ msg.kind = "PrivateShare"
    /\ LET m == Complaint(NewNodeID(key), round, reset, msg, nack)
       IN  msg' = [m EXCEPT !.Signature = Sign(key, hashDKGComplaint(m))]
    /\ out' = Out("SignDKGComplaint", "nil", FALSE)
    /\ UNCHANGED nEdits
    /\ UNCHANGED <<dxVars, dbVars, nbVars, baVars, ncVars, blkVars, voteVars, crsVars, rh>>

\* somebody replaces the signature of the embedded share, or that of the
\* complaint
SetComplaintSignature(inner, sig) ==
    /\ msg.kind = "Complaint"
    /\ nEdits < MaxEdits
    /\ nEdits' = nEdits + 1
    /\ IF inner
         THEN /\ sig # msg.PrivateShare.Signature
              /\ msg' = [msg EXCEPT !.PrivateShare.Signature = sig]
         ELSE /\ sig # msg.Signature
              /\ msg' = [msg EXCEPT !.Signature = sig]
    /\ UNCHANGED out
    /\ UNCHANGED <<dxVars, dbVars, nbVars, baVars, ncVars, blkVars, voteVars, crsVars, rh>>

\* VerifyDKGComplaintSignature(complaint)
VerifyDKGComplaint ==
    /\ msg.kind = "Complaint"
    /\ LET r == VerifyDKGComplaintSignature(msg)
       IN  out' = Out("VerifyDKGComplaintSignature", r.err, r.ok)
    /\ UNCHANGED <<msg, nEdits>>
    /\ UNCHANGED <<dxVars, dbVars, nbVars, baVars, ncVars, blkVars, voteVars, crsVars, rh>>

(***************************************************************************)
(* Rehash.                                                                 *)
(***************************************************************************)
\* a loop that runs once more than count
RECURSIVE RehashInclusive(_, _)
RehashInclusive(h, count) ==
    IF count = 0 THEN Keccak256Hash(h)
    ELSE RehashInclusive(Keccak256Hash(h), count - 1)

\* Rehash(hash, count): the loop replaces result by its hash count times
RECURSIVE Rehash(_, _)
Rehash(h, count) ==
    IF count = 0 THEN h
    ELSE Rehash(Keccak256Hash(h), count - 1)

\* the calls Rehash(h, 0), Rehash(h, n), Rehash(Rehash(h, n), m) and
\* Rehash(h, n + m) with their results
RehashCalls(h, n, m) ==
    [h |-> h, n |-> n, m |-> m,
     zero |-> Rehash(h, 0),
     first |-> Rehash(h, n),
     second |-> Rehash(Rehash(h, n), m),
     whole |-> Rehash(h, n + m)]

\* a caller rehashes a hash
CallRehash(h, n, m) ==
    /\ rh' = RehashCalls(h, n, m)
    /\ rh' # rh
    /\ UNCHANGED <<blkVars, voteVars, crsVars, msg, nEdits, out>>
    /\ UNCHANGED <<dxVars, dbVars, nbVars, baVars, ncVars>>

InitCGVars ==
    /\ block = ZeroBlock
    /\ signedBlock = ZeroBlock
    /\ nEdits = 0
    /\ out = Out("none", "nil", FALSE)
    /\ voteMsg = ZeroVote
    /\ signedVote = ZeroVote
    /\ crsLog = <<>>
    /\ blsSign = [k \in SignerKeys |-> 0]
    /\ blsCalls = <<>>
    /\ msg = [kind |-> "none"]
    /\ rh = RehashCalls(EmptyHash, 0, 0)

(***************************************************************************)
(* The dex cache of votes and blocks (dex/cache.go).                       *)
(*                                                                         *)
(* Every method takes c.lock at its first statement and holds it until it  *)
(* returns, so a call is one step.  The pure operators below work on a     *)
(* record of the fields of the cache; the actions apply them to the        *)
(* variables.  `size = 0` stands for the cache that newCache has not       *)
(* built yet.                                                              *)
(***************************************************************************)
MapPut(m, k, v) == [x \in DOMAIN m \cup {k} |-> IF x = k THEN v ELSE m[x]]
MapDelete(m, k) == [x \in DOMAIN m \ {k} |-> m[x]]
EmptyMap == [x \in {} |-> 0]

CacheSizes == 1..MaxCacheSize
CachePositions == {[Round |-> 0, Height |-> h] : h \in 1..3}

\* the votes handed to the cache: two proposers at each position, and for
\* each of them two votes that differ only in a field the key leaves out
CacheVotes ==
    {Vote(p, "VoteCom", EmptyHash, 1, pos, sig) :
        p \in {1, 2}, pos \in CachePositions,
        sig \in {NoSignature, Signature("bls", <<1>>)}}

\* the blocks handed to the cache: blocks 1 and 2 are two blocks of the same
\* position, block 3 is at the next one; each with and without Randomness
CachedBlock(h, randomness) ==
    [Hash |-> <<h>>,
     Position |-> [Round |-> 0, Height |-> IF h = 3 THEN 2 ELSE 1],
     Randomness |-> randomness]
CacheBlocks == {CachedBlock(h, r) : h \in 1..3, r \in {<<>>, <<9>>}}

\* b.IsFinalized()
IsFinalized(b) == Len(b.Randomness) > 0

\* voteToKey(vote)
voteToKey(v) ==
    [ProposerID |-> v.ProposerID, Type |-> v.Type, BlockHash |-> v.BlockHash,
     Period |-> v.Period, Position |-> v.Position]

\* the fields of the cache as one record
TheCache ==
    [size |-> size, blockCache |-> blockCache,
     finalizedBlockCache |-> finalizedBlockCache, voteCache |-> voteCache,
     votePosition |-> votePosition, voteSize |-> voteSize]

\* newCache(size)
newCache(n) ==
    [size |-> n, blockCache |-> EmptyMap, finalizedBlockCache |-> EmptyMap,
     voteCache |-> EmptyMap, votePosition |-> <<>>, voteSize |-> 0]

\* an eviction that drops the oldest position and keeps the counter
evictVotesKeepSize(c) ==
    IF c.voteSize >= c.size
    THEN [c EXCEPT !.voteCache = MapDelete(@, c.votePosition[1]),
                   !.votePosition = Tail(@)]
    ELSE c

\* addVote, lines 385-390: a full cache drops its oldest position
evictVotes(c) ==
    IF c.voteSize >= c.size
    THEN LET pos == c.votePosition[1]
         IN [c EXCEPT !.voteSize = @ - Cardinality(DOMAIN c.voteCache[pos]),
                      !.voteCache = MapDelete(@, pos),
                      !.votePosition = Tail(@)]
    ELSE c

\* addVote(vote)
addVote(c, v) ==
    LET c1 == evictVotes(c)
        c2 == IF v.Position \notin DOMAIN c1.voteCache
              THEN [c1 EXCEPT !.votePosition = Append(@, v.Position),
                              !.voteCache = MapPut(@, v.Position, EmptyMap)]
              ELSE c1
        key == voteToKey(v)
    IN IF key \in DOMAIN c2.voteCache[v.Position]
       THEN c2
       ELSE [c2 EXCEPT !.voteCache =
                           MapPut(@, v.Position, MapPut(@[v.Position], key, v)),
                       !.voteSize = @ + 1]

\* for k := range m { delete(m, k); break }: the key the iteration meets
\* first goes, and that can be any of them
DeleteOne(m) == {MapDelete(m, k) : k \in DOMAIN m}

\* the map after the evictions of lines 438-444, 456-462 and 463-469
Evicted(m, n) == IF Cardinality(DOMAIN m) >= n THEN DeleteOne(m) ELSE {m}

\* addBlockNoLock without the look at finalizedBlockCache
addBlockNoCheck(c, b) ==
    {[c EXCEPT !.blockCache = MapPut(bc, b.Hash, b)] :
        bc \in Evicted(c.blockCache, c.size)}

\* addBlockNoLock(block): the caches it can leave
addBlockNoLock(c, b) ==
    IF b.Position \in DOMAIN c.finalizedBlockCache
    THEN {c}
    ELSE {[c EXCEPT !.blockCache = MapPut(bc, b.Hash, b)] :
             bc \in Evicted(c.blockCache, c.size)}

\* addFinalizedBlockNoLock(block): the caches it can leave
addFinalizedBlockNoLock(c, b) ==
    {[c EXCEPT !.blockCache = MapPut(bc, b.Hash, b),
               !.finalizedBlockCache = MapPut(fc, b.Position, b)] :
        bc \in Evicted(c.blockCache, c.size),
        fc \in Evicted(c.finalizedBlockCache, c.size)}

\* addBlocks(blocks): the caches it can leave
RECURSIVE addBlocks(_, _)
addBlocks(c, bs) ==
    IF bs = <<>>
    THEN {c}
    ELSE UNION {addBlocks(c1, Tail(bs)) :
                   c1 \in IF IsFinalized(Head(bs))
                          THEN addFinalizedBlockNoLock(c, Head(bs))
                          ELSE addBlockNoLock(c, Head(bs))}

\* the variables take the fields of c
SetCache(c) ==
    /\ size' = c.size
    /\ blockCache' = c.blockCache
    /\ finalizedBlockCache' = c.finalizedBlockCache
    /\ voteCache' = c.voteCache
    /\ votePosition' = c.votePosition
    /\ voteSize' = c.voteSize

\* a call of a method of the cache, and for addVote whether it found the
\* cache full
CacheCall(op, arg, full) == [op |-> op, arg |-> arg, full |-> full]

\* the cache is built and may be called once more
CacheReady == size # 0 /\ nCacheOps < MaxCacheOps

\* newCache(n)
NewCache(n) ==
    /\ size = 0
    /\ SetCache(newCache(n))
    /\ UNCHANGED <<cacheLast, nCacheOps, created>>
    /\ UNCHANGED <<dbVars, nbVars, baVars, ncVars, cgVars>>

\* c.addVote(v)
AddVote(v) ==
    /\ CacheReady
    /\ SetCache(addVote(TheCache, v))
    /\ cacheLast' = CacheCall("addVote", v, voteSize >= size)
    /\ nCacheOps' = nCacheOps + 1
    /\ created' = IF v.Position \in DOMAIN evictVotes(TheCache).voteCache
                  THEN created ELSE Append(created, v.Position)
    /\ UNCHANGED <<dbVars, nbVars, baVars, ncVars, cgVars>>

\* c.addBlock(b)
AddBlock(b) ==
    /\ CacheReady
    /\ \E c \in addBlockNoLock(TheCache, b) : SetCache(c)
    /\ cacheLast' = CacheCall("addBlock", b, FALSE)
    /\ nCacheOps' = nCacheOps + 1
    /\ UNCHANGED <<created, dbVars, nbVars, baVars, ncVars, cgVars>>

\* c.addBlocks(bs)
AddBlocks(bs) ==
    /\ CacheReady
    /\ \E c \in addBlocks(TheCache, bs) : SetCache(c)
    /\ cacheLast' = CacheCall("addBlocks", bs, FALSE)
    /\ nCacheOps' = nCacheOps + 1
    /\ UNCHANGED <<created, dbVars, nbVars, baVars, ncVars, cgVars>>

\* c.addFinalizedBlock(b)
AddFinalizedBlock(b) ==
    /\ CacheReady
    /\ \E c \in addFinalizedBlockNoLock(TheCache, b) : SetCache(c)
    /\ cacheLast' = CacheCall("addFinalizedBlock", b, FALSE)
    /\ nCacheOps' = nCacheOps + 1
    /\ UNCHANGED <<created, dbVars, nbVars, baVars, ncVars, cgVars>>

InitDXVars ==
    /\ size = 0
    /\ blockCache = EmptyMap
    /\ finalizedBlockCache = EmptyMap
    /\ voteCache = EmptyMap
    /\ votePosition = <<>>
    /\ voteSize = 0
    /\ cacheLast = CacheCall("none", 0, FALSE)
    /\ nCacheOps = 0
    /\ created = <<>>

(***************************************************************************)
(* MemBackedDB (core/nonblocking.go, lines 180-285).                       *)
(*                                                                         *)
(* HasBlock holds blocksLock for reading while it looks the hash up, and   *)
(* PutBlock takes it for writing only after HasBlock has returned: the     *)
(* look-up and the store are two steps of a PutBlock call, and the steps   *)
(* of other threads can fall between them.                                 *)
(***************************************************************************)
DBThreads == {1, 2}
DBHashes == {<<1>>, <<2>>}

\* m.HasBlock(hash)
HasBlock(byHash, h) == h \in DOMAIN byHash

\* a thread that is in no PutBlock call
IdlePut == [pc |-> "idle", hash |-> <<>>]

\* what a PutBlock call returned
PutReturn(t, h, e) == [thread |-> t, hash |-> h, err |-> e]

\* PutBlock, line 262: the call looks the hash up and returns
\* ErrBlockExists when it is there
PutBlockCheck(t, h) ==
    /\ putCall[t].pc = "idle"
    /\ Len(putLog) + Cardinality({u \in DBThreads : putCall[u].pc = "store"}) < MaxPuts
    /\ IF HasBlock(blocksByHash, h)
       THEN /\ putLog' = Append(putLog, PutReturn(t, h, "ErrBlockExists"))
            /\ UNCHANGED putCall
       ELSE /\ putCall' = [putCall EXCEPT ![t] = [pc |-> "store", hash |-> h]]
            /\ UNCHANGED putLog
    /\ UNCHANGED <<blockHashSequence, blocksByHash>>
    /\ UNCHANGED <<dxVars, nbVars, baVars, ncVars, cgVars>>

\* PutBlock, lines 266-271: under the write lock the hash is appended and
\* the block stored
PutBlockStore(t) ==
    /\ putCall[t].pc = "store"
    /\ blockHashSequence' = Append(blockHashSequence, putCall[t].hash)
    /\ blocksByHash' = MapPut(blocksByHash, putCall[t].hash, putCall[t].hash)
    /\ putLog' = Append(putLog, PutReturn(t, putCall[t].hash, "nil"))
    /\ putCall' = [putCall EXCEPT ![t] = IdlePut]
    /\ UNCHANGED <<dxVars, nbVars, baVars, ncVars, cgVars>>

InitDBVars ==
    /\ blockHashSequence = <<>>
    /\ blocksByHash = EmptyMap
    /\ putCall = [t \in DBThreads |-> IdlePut]
    /\ putLog = <<>>

(***************************************************************************)
(* Specifications.                                                         *)
(***************************************************************************)
Init ==
    /\ InitNBVars /\ InitBAVars /\ InitNCVars /\ InitCGVars
    /\ InitDXVars /\ InitDBVars

NextNB ==
    \/ \E e \in EventIds, k \in EventKinds : AddEventCall(e, k)
    \/ \E e \in EventIds : AddEvent(e)
    \/ RunWait
    \/ RunPop
    \/ RunDispatch
    \/ RunReturn
    \/ RunDone
    \/ \E w \in Waiters : WaitCall(w)
    \/ \E w \in Waiters : WaitSleep(w)
    \/ \E w \in Waiters : WaitDrained(w)
    \/ \E w \in Waiters : WaitReturn(w)

\* the dispatcher, without any scheduling assumption
SpecNB == Init /\ [][NextNB]_vars

\* every step of a thread that is inside run(), addEvent or wait() is
\* eventually taken when it stays possible; only the decision to call
\* BlockConfirmed, BlockDelivered or wait() is left to the environment
FairNB ==
    /\ WF_vars(RunWait) /\ WF_vars(RunPop)
    /\ WF_vars(RunDispatch) /\ WF_vars(RunReturn) /\ WF_vars(RunDone)
    /\ \A e \in EventIds : WF_vars(AddEvent(e))
    /\ \A w \in Waiters :
         WF_vars(WaitSleep(w)) /\ WF_vars(WaitDrained(w)) /\ WF_vars(WaitReturn(w))

SpecNBFair == SpecNB /\ FairNB

NextBA ==
    \/ FastLockLeader
    \/ FastReadLeader
    \/ \E h \in Hashes : FastProposeBlock(h)
    \/ FastLock
    \/ FastProposeVote
    \/ FastVoteNext
    \/ InitialLockLeader
    \/ InitialReadLeader
    \/ \E h \in Hashes : InitialProposeBlock(h)
    \/ InitialLock
    \/ InitialProposeVote
    \/ PreCommitRLock
    \/ \E h \in Hashes : PreCommitVote(h)
    \/ CommitLock
    \/ CommitVote
    \/ ForwardNext
    \/ PullVoteNext
    \/ \E b \in BOOLEAN : EnvSetLeader(b)
    \/ \E h \in Hashes : EnvSetLockValue(h)
    \/ \E p \in Periods : EnvSetPeriod(p)

\* the agreement state machine driven from newFastState
SpecBA == Init /\ [][NextBA]_vars

NextBAQ ==
    \/ NextBA
    \/ \E b \in BOOLEAN : EnvSetQuorum(b)

\* the state machine while the quorum status changes around it
SpecBAQ == Init /\ [][NextBAQ]_vars

NextNC ==
    \/ \E c \in Callers, op \in LookupOps, r \in Rounds :
          \E n \in NodeArgs(op) : Get(c, op, r, n)
    \/ \E c \in Callers, op \in LookupOps :
          \E n \in NodeArgs(op) : UpdateAfterMiss(c, op, n)
    \/ \E c \in Callers, r \in Rounds : Touch(c, r)
    \/ \E c \in Callers, r \in Rounds : Purge(c, r)

\* the committee cache called by NumCallers threads
SpecNC == Init /\ [][NextNC]_vars

NextBlk ==
    \/ \E p \in Payloads, r \in BlockRounds, t \in Times : NewBlock(p, r, t)
    \/ \E k \in SignerKeys : SignBlock(k)
    \/ \E f \in BlockFields : \E v \in FieldValues(f) : SetBlockField(f, v)
    \/ SetPayloadHash
    \/ SetHash
    \/ \E sig \in OtherSignatures(block.Hash, block.Signature) : SetSignature(sig)
    \/ VerifyBlock

\* blocks that are signed, changed and verified
SpecBlk == Init /\ [][NextBlk]_vars

NextVote ==
    \/ \E t \in VoteTypes, ps \in {Signature("bls", <<>>), Signature("bls", <<1>>)} :
          MakeVote(t, ps)
    \/ \E k \in SignerKeys : SignVote(k)
    \/ \E f \in VoteFields : \E v \in VoteFieldValues(f) : SetVoteField(f, v)
    \/ \E sig \in OtherSignatures(HashVote(voteMsg), voteMsg.Signature) : SetVoteSignature(sig)
    \/ VerifyVote

\* votes that are signed, changed and verified
SpecVote == Init /\ [][NextVote]_vars

NextCRS ==
    \/ \E r \in BlockRounds, k \in SignerKeys : ProposeBlock(r, NewNodeID(k))
    \/ \E k \in SignerKeys : SetBLSSigner(k, SignerBLSKey)
    \/ \E k \in SignerKeys, c \in CRSs, fails \in BOOLEAN : SignCRS(k, c, fails)
    \/ \E c \in CRSs, npks \in NodePublicKeys : VerifyCRS(c, npks)

\* blocks whose CRS is signed and verified
SpecCRS == Init /\ [][NextCRS]_vars

NextDKG ==
    \/ \E mt \in DKGKinds, k \in SignerKeys, r \in DKGRounds, t \in DKGResets :
          SignDKG(mt, k, r, t)
    \/ \E mt \in DKGKinds : VerifyDKG(mt)
    \/ \E k \in SignerKeys, r \in DKGRounds, t \in DKGResets :
          SignDKGPrivateShare(k, r, t)
    \/ \E k \in SignerKeys, r \in DKGRounds, t \in DKGResets, nack \in BOOLEAN :
          SignDKGComplaint(k, r, t, nack)
    \/ \E inner \in BOOLEAN :
          /\ msg.kind = "Complaint"
          /\ \E sig \in OtherSignatures(IF inner THEN hashDKGPrivateShare(msg.PrivateShare)
                                                   ELSE hashDKGComplaint(msg),
                                        IF inner THEN msg.PrivateShare.Signature
                                                 ELSE msg.Signature) :
                SetComplaintSignature(inner, sig)
    \/ VerifyDKGComplaint

\* DKG messages that are signed and verified
SpecDKG == Init /\ [][NextDKG]_vars

NextRH ==
    \E h \in {EmptyHash, <<5>>, Keccak256Hash(<<7>>)}, n \in 0..MaxCount, m \in 0..MaxCount :
        CallRehash(h, n, m)

\* hashes that are rehashed
SpecRH == Init /\ [][NextRH]_vars

NextDXV ==
    \/ \E n \in CacheSizes : NewCache(n)
    \/ \E v \in CacheVotes : AddVote(v)

\* votes that are added to the dex cache
SpecDXV == Init /\ [][NextDXV]_vars

NextDXB ==
    \/ \E n \in CacheSizes : NewCache(n)
    \/ \E b \in CacheBlocks : AddBlock(b)
    \/ \E b1 \in CacheBlocks, b2 \in CacheBlocks : AddBlocks(<<b1, b2>>)
    \/ \E b \in CacheBlocks : AddFinalizedBlock(b)

\* blocks that are added to the dex cache
SpecDXB == Init /\ [][NextDXB]_vars

NextDB ==
    \/ \E t \in DBThreads, h \in DBHashes : PutBlockCheck(t, h)
    \/ \E t \in DBThreads : PutBlockStore(t)

\* threads that put blocks into the MemBackedDB
SpecDB == Init /\ [][NextDB]_vars

(***************************************************************************)
(* Properties of the dispatcher.                                           *)
(***************************************************************************)
DeliveredIds == [i \in 1..Len(delivered) |-> delivered[i][1]]

\* C1: the application callbacks are invoked in exactly the order in which
\* the events were appended to the queue: the sequence of events handed to
\* the callbacks is always a prefix of the sequence of appended events.
C1_DispatchOrder == IsPrefix(DeliveredIds, submitted)

\* the caller of event 2 appended before the caller of event 1, and both
\* events have been handed to the application
C1_Witness == submitted = <<2, 1>> /\ Len(delivered) = 2

\* C2: wait() returns only after the callback of every event that was queued
\* or in flight at its call has returned: at the step that makes wait()
\* return the queue is empty, no event is in flight, and the callback of
\* every event appended so far has returned.
C2_WaitDrains ==
    [][\A w \in Waiters :
          (tpc[w] # "returned" /\ tpc'[w] = "returned") =>
              /\ events' = <<>>
              /\ wpc' \notin {"dispatch", "callback"}
              /\ running' = 0
              /\ Range(submitted') \subseteq completed']_vars

\* a wait() that was called with events queued or in flight has returned
C2_Witness == \E w \in Waiters : tpc[w] = "returned" /\ pendingAtCall[w]

\* C3: a BlockConfirmed/BlockDelivered call never waits for an application
\* callback to return: no caller is blocked at the mutex of addEvent while
\* the mutex holder is blocked until a running callback returns.
C3_SubmitNeverWaitsForCallback ==
    \A e \in EventIds :
        epc[e] = "lock" =>
            ~(\E w \in Waiters :
                 /\ mutex = Waiter(w)
                 /\ tpc[w] = "running_wait"
                 /\ running > 0)

\* C4: every submitted event is eventually passed to the callback of its
\* kind (under SpecNBFair).
C4_EveryEventDelivered ==
    \A e \in EventIds :
        (epc[e] # "idle") ~>
            (\E i \in 1..Len(delivered) :
                delivered[i] = <<e, IF kind[e] = "confirmed"
                                      THEN "BlockConfirmed"
                                      ELSE "BlockDelivered">>)

\* an event of each kind has been handed to its callback
C4_Witness ==
    /\ \E i \in 1..Len(delivered) :
          delivered[i][2] = "BlockConfirmed" /\ kind[delivered[i][1]] = "confirmed"
    /\ \E i \in 1..Len(delivered) :
          delivered[i][2] = "BlockDelivered" /\ kind[delivered[i][1]] = "delivered"

\* the callbacks that have been entered and have not returned
Executing == {i \in 1..Len(delivered) : delivered[i][1] \notin completed}

\* C35: at every moment at most one application callback is executing, and
\* each submitted event is passed to a callback at most once.
C35_SingleWorker ==
    /\ running <= 1
    /\ Cardinality(Executing) <= 1
    /\ \A i \in 1..Len(delivered), j \in 1..Len(delivered) :
         delivered[i][1] = delivered[j][1] => i = j
    /\ \A i \in 1..Len(delivered) : delivered[i][1] \in Range(submitted)

\* a callback is executing while another event is queued, after an earlier
\* callback has returned
C35_Witness ==
    /\ wpc = "callback"
    /\ Cardinality(Executing) = 1
    /\ Len(delivered) >= 2
    /\ completed # {}

(***************************************************************************)
(* Properties of the agreement state machine.                              *)
(***************************************************************************)
Calls(op) == {i \in 1..Len(trace) : trace[i].op = op}
VotesOf(t) == {i \in Calls("ProposeVote") : trace[i].vote.typ = t}
LastCall(tr) == tr[Len(tr)]

\* C5: starting from Fast, the n-th nextState call returns the n-th state of
\* Fast, FastVote, Initial, PreCommit, Commit, Forward, PullVote, and every
\* later call stays in PullVote, whatever isLeader, lockValue and the
\* proposed hash are.
C5_StateSequence ==
    state = <<"Fast", "FastVote", "Initial", "PreCommit", "Commit", "Forward",
              "PullVote">>[IF nCalls < 6 THEN nCalls + 1 ELSE 7]

\* a nextState call made in PullVote has returned
C5_Witness == state = "PullVote" /\ nCalls > 6

\* C6: a Fast vote is emitted only by the Fast transition and at most once in
\* the run; when that transition read isLeader = true it calls ProposeBlock,
\* and emits exactly one Fast vote, for the proposed hash, if that hash is
\* not null, and none if it is null; the vote carries the period current at
\* the ProposeVote call.
C6_FastVote ==
    /\ [](/\ Cardinality(VotesOf("Fast")) <= 1
          /\ \A i \in VotesOf("Fast") : trace[i].st = "Fast"
          /\ state # "Fast" =>
               \A i \in Calls("isLeader") :
                   (trace[i].st = "Fast" /\ trace[i].leader) =>
                       /\ trace[i + 1].op = "ProposeBlock"
                       /\ IF trace[i + 1].ret # 0
                            THEN /\ VotesOf("Fast") = {i + 2}
                                 /\ trace[i + 2].vote.hash = trace[i + 1].ret
                            ELSE VotesOf("Fast") = {})
    /\ [][(bpc = "fast_vote" /\ bpc' = "idle") =>
            /\ Len(trace') = Len(trace) + 1
            /\ LastCall(trace').vote = [typ |-> "Fast", hash |-> hash,
                                        period |-> period]]_vars

\* the leader has emitted a Fast vote in a period other than the initial one
C6_Witness ==
    /\ state = "FastVote"
    /\ \E i \in VotesOf("Fast") : trace[i].vote.hash = 1 /\ trace[i].vote.period = 2

\* C7: when every isLeader read of the run returned false, the Initial
\* transition calls ProposeBlock once and emits one Init vote for the hash it
\* returned (the null hash included), no other proposal is requested, and no
\* Fast vote is emitted.
C7_NonLeaderPath ==
    (\A i \in Calls("isLeader") : ~trace[i].leader) =>
        /\ VotesOf("Fast") = {}
        /\ \A i \in Calls("ProposeBlock") : trace[i].st = "Initial"
        /\ state \notin {"Fast", "FastVote", "Initial"} =>
             /\ Cardinality(Calls("ProposeBlock")) = 1
             /\ Cardinality(VotesOf("Init")) = 1
             /\ \A i \in Calls("ProposeBlock") :
                    /\ VotesOf("Init") = {i + 1}
                    /\ trace[i + 1].st = "Initial"
                    /\ trace[i + 1].vote.hash = trace[i].ret

\* a non-leader has emitted its Init vote for the null hash
C7_Witness ==
    /\ state = "PreCommit"
    /\ \A i \in Calls("isLeader") : ~trace[i].leader
    /\ \E i \in VotesOf("Init") : trace[i].vote.hash = 0

\* C8: the PreCommit transition emits exactly one PreCom vote; its hash is
\* what leaderBlockHash() returned when lockValue is SKIP or NULL, and is
\* lockValue otherwise.
C8_PreCommitVote ==
    /\ [](/\ Cardinality(VotesOf("PreCom")) =
               IF state \in {"Commit", "Forward", "PullVote"} THEN 1 ELSE 0
          /\ \A i \in VotesOf("PreCom") : trace[i].st = "PreCommit")
    /\ [][(bpc = "pre_vote" /\ bpc' = "idle") =>
            /\ state' = "Commit"
            /\ LastCall(trace').op = "ProposeVote"
            /\ LastCall(trace').vote.typ = "PreCom"
            /\ IF lockValue = 255 \/ lockValue = 0
                 THEN /\ Len(trace') = Len(trace) + 2
                      /\ trace'[Len(trace) + 1].op = "leaderBlockHash"
                      /\ LastCall(trace').vote.hash = trace'[Len(trace) + 1].ret
                 ELSE /\ Len(trace') = Len(trace) + 1
                      /\ LastCall(trace').vote.hash = lockValue]_vars

\* with lockValue = SKIP the PreCom vote went to the leader's block
C8_Witness ==
    /\ state = "Commit" /\ lockValue = 255
    /\ \E i \in Calls("leaderBlockHash") :
          trace[i].ret = 1 /\ VotesOf("PreCom") = {i + 1}

\* C9: the Commit transition emits exactly one Com vote, whose hash is the
\* lockValue of that moment (SKIP and NULL included) and whose period is the
\* current period.
C9_CommitVote ==
    /\ [](/\ Cardinality(VotesOf("Com")) =
               IF state \in {"Forward", "PullVote"} THEN 1 ELSE 0
          /\ \A i \in VotesOf("Com") : trace[i].st = "Commit")
    /\ [][(bpc = "com_vote" /\ bpc' = "idle") =>
            /\ state' = "Forward"
            /\ Len(trace') = Len(trace) + 1
            /\ LastCall(trace').op = "ProposeVote"
            /\ LastCall(trace').vote = [typ |-> "Com", hash |-> lockValue,
                                        period |-> period]]_vars

\* a Com vote for SKIP has been emitted in period 2
C9_Witness ==
    /\ state = "Forward"
    /\ \E i \in VotesOf("Com") : trace[i].vote.hash = 255 /\ trace[i].vote.period = 2

\* C10 as claimed: no ProposeVote call is made while the transition holds
\* the agreement-data lock.
C10_NoVoteUnderLock == \A i \in Calls("ProposeVote") : ~trace[i].locked

\* C10 as amended: isLeader and lockValue are read with the lock held, the
\* lock has been released before every ProposeBlock call, and every
\* ProposeVote call (and the leaderBlockHash call of PreCommit) is made with
\* the lock held: the write lock in Fast, Initial and Commit, the read lock
\* in PreCommit.
C10_LockDiscipline ==
    /\ \A i \in Calls("isLeader") : trace[i].locked
    /\ \A i \in Calls("ProposeBlock") : ~trace[i].locked
    /\ \A i \in Calls("ProposeVote") : trace[i].locked
    /\ \A i \in Calls("leaderBlockHash") : trace[i].locked
    /\ bpc \in {"fast_read", "fast_vote", "init_read", "init_vote", "com_vote"}
         => baLock = "w"
    /\ bpc = "pre_vote" => baLock = "r"
    /\ bpc \in {"idle", "fast_propose", "fast_lock", "init_propose", "init_lock"}
         => baLock = "free"

\* the leader has proposed a block and voted for it in the Fast transition
C10_Witness ==
    /\ state = "FastVote"
    /\ Calls("ProposeBlock") # {}
    /\ VotesOf("Fast") # {}


C34_SingleProposal ==
    state \notin {"Fast", "FastVote", "Initial"}
    => /\ Cardinality(Calls("ProposeBlock")) = 1
       /\ VotesOf("Fast") = {} \/ VotesOf("Init") = {}


(***************************************************************************)
(* Properties of the committee cache.                                      *)
(***************************************************************************)
\* the number of cached rounds whose node set holds the node
Referencing(rs, n) == Cardinality({r \in DOMAIN rs : n \in rs[r].nodeSet})

\* every count of the pool is the number of cached rounds with the node, and
\* the pool has a record exactly of the nodes of the cached rounds
RefCountsExact(rs, pool) ==
    \A n \in NodeIDs :
        IF Referencing(rs, n) > 0
          THEN n \in DOMAIN pool /\ pool[n].refCnt = Referencing(rs, n)
          ELSE n \notin DOMAIN pool

\* no count of the pool is above the number of cached rounds with the node
RefCountsNotAbove(rs, pool) ==
    \A n \in DOMAIN pool : pool[n].refCnt <= Referencing(rs, n)

\* the step is cache.update(round) run by caller c, from Touch or after a miss
UpdateStep(c, round) ==
    \/ Touch(c, round)
    \/ /\ call[c].round = round
       /\ \E op \in LookupOps : \E n \in NodeArgs(op) : UpdateAfterMiss(c, op, n)

\* C12: after any sequence of Exists, GetNodeSet, GetNotarySet, Touch and
\* Purge calls, with a provider that may list a key twice, every refCnt of
\* the key pool equals the number of cached rounds whose node set contains
\* the node, is never negative, and a record exists exactly when that number
\* is above zero.
C12_RefCountInvariant ==
    /\ RefCountsExact(rounds, keyPool)
    /\ \A n \in DOMAIN keyPool : keyPool[n].refCnt >= 0

\* C13: when two callers have both missed round R, with the counts exact,
\* and both run update(R), one after the other, no count is left above the
\* number of cached rounds with the node: the caller that loses the race
\* does not increment the counts a second time.
C13_RaceKeepsRefCounts ==
    \A c1 \in Callers, c2 \in Callers :
        (/\ c1 # c2
         /\ call[c1].pc = "miss" /\ call[c2].pc = "miss"
         /\ call[c1].round = call[c2].round
         /\ RefCountsExact(rounds, keyPool))
        => LET won == Update(rounds, keyPool, call[c1].round)
               lost == Update(won.rounds, won.keyPool, call[c2].round)
           IN  won.err = "nil" => RefCountsNotAbove(lost.rounds, lost.keyPool)

\* C14: Touch(R) on a round that is already cached leaves the rounds map and
\* every refCnt as they were.
C14_TouchIdempotent ==
    [][\A c \in Callers, r \in Rounds :
         (Touch(c, r) /\ r \in DOMAIN rounds)
         => (rounds' = rounds /\ keyPool' = keyPool)]_vars

\* C15: GetPublicKey(n) reports found exactly when some cached round's node
\* set contains n.
C15_PublicKeyIffCached ==
    \A n \in NodeIDs : GetPublicKey(n) <=> Referencing(rounds, n) > 0


\* the node ids of the provider's node set of a round
ProviderIDs(round) == IDsOf(NodeSet(round).keys)

\* C16: once update(R) has succeeded, Exists(R, n) returns true exactly for
\* the nodes of the provider's node set of R; on a miss Exists runs
\* update(R) and returns its error, with exists false, when it fails.
C16_Exists ==
    [][last'.op = "Exists" => \A c \in Callers :
         /\ \A r \in Rounds, n \in NodeIDs :
              (Get(c, "Exists", r, n) /\ r \in DOMAIN rounds)
              => last' = Returned("Exists", n \in ProviderIDs(r), "nil")
         /\ \A n \in NodeIDs :
              UpdateAfterMiss(c, "Exists", n)
              => LET r == call[c].round
                 IN  /\ last'.op = "Exists"
                     /\ last'.err = Update(rounds, keyPool, r).err
                     /\ last'.err = "nil"
                          => (r \in DOMAIN rounds'
                              /\ last'.exists = (n \in ProviderIDs(r)))
                     /\ last'.err # "nil"
                          => (~last'.exists /\ rounds' = rounds)]_vars

\* an Exists call has returned true
C16_Witness ==
    /\ last.op = "Exists"
    /\ last.exists
    /\ last.err = "nil"
    /\ \E r \in DOMAIN rounds : rounds[r].nodeSet # NodeIDs

\* Purge applied to a set of rounds, one after the other
RECURSIVE PurgeAll(_, _, _)
PurgeAll(rs, pool, todo) ==
    IF todo = {} THEN Result(rs, pool, "nil")
    ELSE LET rID == CHOOSE x \in todo : TRUE
             res == PurgeRound(rs, pool, rID)
         IN  PurgeAll(res.rounds, res.keyPool, todo \ {rID})

\* C17: after a successful update(R), every other cached round R' with
\* R - R' > 5 has been evicted exactly as Purge would evict it, and every
\* previously cached round R' with R - R' <= 5 is still cached.
C17_RetentionSweep ==
    [][\A c \in Callers, r \in Rounds :
         (UpdateStep(c, r) /\ last'.err = "nil")
         => LET old == {r2 \in DOMAIN rounds \ {r} : r - r2 > RetainedRounds}
                cached == (r :> [crs |-> CRS(r), nodeSet |-> ProviderIDs(r)]) @@ rounds
                purged == PurgeAll(cached, AddKeys(keyPool, NodeSet(r).keys), old)
            IN  /\ \A r2 \in DOMAIN rounds \ {r} :
                     IF r - r2 > RetainedRounds
                       THEN r2 \notin DOMAIN rounds'
                       ELSE r2 \in DOMAIN rounds' /\ rounds'[r2] = rounds[r2]
                /\ keyPool' = purged.keyPool]_vars

\* the window of the comment above update: "10 rounds before the updated round"
DocumentedRounds == 10

\* C18: after update(R) the cache still holds every previously cached round
\* R' with R - 10 <= R' <= R and has purged the cached rounds outside that
\* range.
C18_DocumentedWindow ==
    [][\A c \in Callers, r \in Rounds :
         (UpdateStep(c, r) /\ last'.err = "nil")
         => \A r2 \in DOMAIN rounds :
              IF r - DocumentedRounds <= r2 /\ r2 <= r
                THEN r2 \in DOMAIN rounds'
                ELSE r2 \notin DOMAIN rounds']_vars

\* C19: update(R) fails with ErrNodeSetNotReady when the provider's list of
\* R is nil or empty, with ErrCRSNotReady when its CRS is the zero hash, with
\* ErrConfigurationNotReady when its configuration is absent, and in each
\* case R is not cached.
C19_NotReadyErrors ==
    [][\A c \in Callers, r \in Rounds :
         UpdateStep(c, r)
         => LET noNodeSet == NodeSet(r).isNil \/ NodeSet(r).keys = <<>>
                noCRS == CRS(r) = ZeroHash
                noConfig == Configuration(r).isNil
            IN  /\ noNodeSet
                     => (last'.err = "ErrNodeSetNotReady" /\ r \notin DOMAIN rounds')
                /\ (~noNodeSet /\ noCRS)
                     => (last'.err = "ErrCRSNotReady" /\ r \notin DOMAIN rounds')
                /\ (~noNodeSet /\ ~noCRS /\ noConfig)
                     => (last'.err = "ErrConfigurationNotReady"
                         /\ r \notin DOMAIN rounds')]_vars

\* C20: Purge(R) on a cached round removes that round's snapshot and no
\* other, lowers by one the refCnt of every node of its node set, deletes
\* the records that reach zero and leaves every other record as it was; on a
\* round that is not cached it changes nothing.
C20_Purge ==
    [][last'.op = "Purge" => \A c \in Callers, r \in Rounds :
         Purge(c, r)
         => IF r \in DOMAIN rounds
              THEN /\ DOMAIN rounds' = DOMAIN rounds \ {r}
                   /\ \A r2 \in DOMAIN rounds' : rounds'[r2] = rounds[r2]
                   /\ DOMAIN keyPool' \subseteq DOMAIN keyPool
                   /\ \A n \in DOMAIN keyPool :
                        IF n \in rounds[r].nodeSet
                          THEN IF keyPool[n].refCnt = 1
                                 THEN n \notin DOMAIN keyPool'
                                 ELSE /\ n \in DOMAIN keyPool'
                                      /\ keyPool'[n].refCnt = keyPool[n].refCnt - 1
                                      /\ keyPool'[n].pubKey = keyPool[n].pubKey
                          ELSE n \in DOMAIN keyPool' /\ keyPool'[n] = keyPool[n]
              ELSE rounds' = rounds /\ keyPool' = keyPool]_vars

\* a Purge has removed a cached round while another round stays cached, one
\* record was deleted and one survives
C20_Witness ==
    /\ last.op = "Purge"
    /\ last.exists
    /\ rounds # <<>>
    /\ keyPool # <<>>
    /\ \E n \in NodeIDs : n \notin DOMAIN keyPool


\* C31: when update(R) returns a not-ready error, for the node set, the CRS
\* or the configuration, the rounds map and every record and refCnt of the
\* key pool are as before the call.
C31_FailedUpdateChangesNothing ==
    [][\A c \in Callers, r \in Rounds :
         (UpdateStep(c, r) /\ last'.err # "nil")
         => (rounds' = rounds /\ keyPool' = keyPool)]_vars

\* C32: a successful update(R) evicts no cached round R' > R.
C32_SweepKeepsNewerRounds ==
    [][\A c \in Callers, r \in Rounds :
         (UpdateStep(c, r) /\ last'.err = "nil")
         => \A r2 \in DOMAIN rounds : r2 > r => r2 \in DOMAIN rounds']_vars

\* every node of every cached round has a record with a count of at least one
PoolCovers(rs, pool) ==
    \A r \in DOMAIN rs : \A n \in rs[r].nodeSet :
        n \in DOMAIN pool /\ pool[n].refCnt >= 1

\* the sweep of update(round) finds a record for every node it releases
RECURSIVE SweepFindsRecords(_, _, _, _)
SweepFindsRecords(rs, pool, round, todo) ==
    IF todo = {} THEN TRUE
    ELSE LET rID == CHOOSE x \in todo : TRUE
         IN  IF Sweeps(round, rID)
               THEN /\ rs[rID].nodeSet \subseteq DOMAIN pool
                    /\ SweepFindsRecords([x \in DOMAIN rs \ {rID} |-> rs[x]],
                                         Release(pool, rs[rID].nodeSet),
                                         round, todo \ {rID})
               ELSE SweepFindsRecords(rs, pool, round, todo \ {rID})

\* C36: in every reachable state every node of the node set of every cached
\* round has a key-pool record with refCnt >= 1, so the loop of Purge and
\* the sweep of an update find a record for every node they release.
C36_KeyPoolCoverage ==
    /\ PoolCovers(rounds, keyPool)
    /\ \A r \in Rounds :
         LET keySet == NodeSet(r)
             pooled == AddKeys(keyPool, keySet.keys)
             cached == (r :> [crs |-> CRS(r), nodeSet |-> IDsOf(keySet.keys)]) @@ rounds
         IN  Update(rounds, keyPool, r).err = "nil"
             => SweepFindsRecords(cached, pooled, r, DOMAIN cached)

\* a Purge has removed a round whose node is also in a round that stays
\* cached, and the record of the node is still there
C36_Witness ==
    /\ last = Returned("Purge", TRUE, "nil")
    /\ \E r \in DOMAIN rounds : \E n \in rounds[r].nodeSet :
         /\ keyPool[n].refCnt = 1
         /\ NodeIDs \ DOMAIN keyPool # {}

\* round R is cached and every cached round R' has R - 5 <= R' <= R
InWindow(rs, r) ==
    /\ r \in DOMAIN rs
    /\ \A r2 \in DOMAIN rs : r - RetainedRounds <= r2 /\ r2 <= r

ChangedFields(b, c) ==
    {f \in BlockFields \ {"Timestamp"} : b[f] # c[f]}
      \cup (IF b.Timestamp.sec # c.Timestamp.sec THEN {"Timestamp"} ELSE {})

\* C21: VerifyBlockSignature succeeds on the block SignBlock has produced,
\* for every block and signer key, and fails once payload, position,
\* timestamp, witness, parentHash or proposerID is changed while the
\* signature stays the one SignBlock made.
C21_BlockRoundTrip ==
    signedBlock # ZeroBlock
    => /\ VerifyBlockSignature(signedBlock) = "nil"
       /\ (block.Signature = signedBlock.Signature
           /\ ChangedFields(block, signedBlock) # {})
          => VerifyBlockSignature(block) # "nil"

\* a changed block with the original signature has been verified and refused
C21_Witness ==
    /\ out.op = "VerifyBlockSignature"
    /\ out.err # "nil"
    /\ block.Signature = signedBlock.Signature
    /\ block.Hash = signedBlock.Hash
    /\ ChangedFields(block, signedBlock) = {"ParentHash"}

\* C22: VerifyBlockSignature returns ErrIncorrectHash when the hash of the
\* payload differs from PayloadHash or the recomputed block hash differs
\* from Hash; it returns ErrIncorrectSignature only when both hashes match
\* and the key recovered from (Hash, Signature) does not map to ProposerID;
\* it returns nil only when the three checks pass.
C22_BlockErrors ==
    LET e == VerifyBlockSignature(block)
        payloadOK == Keccak256Hash(block.Payload) = block.PayloadHash
        hashOK == HashBlock(block) = block.Hash
        rec == SigToPub(block.Hash, block.Signature)
        keyOK == rec.err = "nil" /\ block.ProposerID = NewNodeID(rec.key)
    IN  /\ ~payloadOK => e = "ErrIncorrectHash"
        /\ ~hashOK => e = "ErrIncorrectHash"
        /\ e = "ErrIncorrectSignature"
             => (payloadOK /\ hashOK /\ rec.err = "nil" /\ ~keyOK)
        /\ e = "nil" => (payloadOK /\ hashOK /\ keyOK)

\* a block with both hashes right and the signature of another key has been
\* refused with ErrIncorrectSignature
C22_Witness ==
    /\ out = Out("VerifyBlockSignature", "ErrIncorrectSignature", FALSE)
    /\ Keccak256Hash(block.Payload) = block.PayloadHash
    /\ HashBlock(block) = block.Hash
    /\ block.ProposerID # NewNodeID(SigToPub(block.Hash, block.Signature).key)


\* the hashed fields in which two votes differ; two partial signatures
\* differ when their bytes do
ChangedVoteFields(v, w) ==
    {f \in VoteFields \ {"PartialSignature"} : v[f] # w[f]}
      \cup (IF v.PartialSignature.Signature # w.PartialSignature.Signature
              THEN {"PartialSignature"} ELSE {})

\* C23: for each of the five vote types VerifyVoteSignature returns true on
\* the vote SignVote has produced, and does not return true once proposerID,
\* blockHash, period, position, type or the partial signature is changed
\* under the original signature, or once the signature of the unchanged
\* vote is replaced by other bytes.
C23_VoteRoundTrip ==
    signedVote # ZeroVote
    => /\ VerifyVoteSignature(signedVote) = [ok |-> TRUE, err |-> "nil"]
       /\ (voteMsg.Signature = signedVote.Signature
           /\ ChangedVoteFields(voteMsg, signedVote) # {})
          => ~VerifyVoteSignature(voteMsg).ok
       /\ (voteMsg.Signature # signedVote.Signature
           /\ ChangedVoteFields(voteMsg, signedVote) = {})
          => ~VerifyVoteSignature(voteMsg).ok

\* a vote whose type alone was changed after signing has been verified and
\* refused
C23_Witness ==
    /\ out = Out("VerifyVoteSignature", "nil", FALSE)
    /\ voteMsg.Signature = signedVote.Signature
    /\ ChangedVoteFields(voteMsg, signedVote) = {"Type"}
    /\ signedVote.Type = "VoteFastCom"


\* C24: for a block of a round before dkgDelayRound whose ProposerID is the
\* signer's, SignCRS does not call the threshold signer, configured or not,
\* stores the digest of (crs, position hash, proposerID) as CRSSignature and
\* returns no error, and VerifyCRSSignature with the same crs is true.
C24_PreThresholdCRS ==
    [][\A k \in SignerKeys, c \in CRSs, fails \in BOOLEAN :
         (/\ out'.op = "SignCRS"
          /\ SignCRS(k, c, fails)
          /\ block.Position.Round < dkgDelayRound
          /\ block.ProposerID = NewNodeID(k))
         => /\ blsCalls' = blsCalls
            /\ out'.err = "nil"
            /\ block'.CRSSignature.Signature
                 = Keccak256Hash(c \o HashPosition(block.Position)
                                   \o <<block.ProposerID>>)
            /\ block' = [block EXCEPT !.CRSSignature = block'.CRSSignature]
            /\ \A npks \in NodePublicKeys : VerifyCRSSignature(block', c, npks)]_vars

\* a signer with a configured threshold signer has signed the CRS of a block
\* of round 0 without calling it
C24_Witness ==
    /\ out = Out("SignCRS", "nil", FALSE)
    /\ block.Position.Round < dkgDelayRound
    /\ Len(crsLog) = 1
    /\ block.ProposerID = NewNodeID(crsLog[1].key)
    /\ blsSign[crsLog[1].key] # 0
    /\ blsCalls = <<>>
    /\ block.CRSSignature.Signature = hashCRS(block, crsLog[1].crs)

\* C25: for a block of a round from dkgDelayRound on whose ProposerID is the
\* signer's, SignCRS without a threshold signer returns ErrNoBLSSigner and
\* changes neither the block nor the signers; with a threshold signer set by
\* SetBLSSigner the same call calls it once with the round and the digest of
\* (crs, position hash) and stores what it returns.
C25_PostThresholdCRS ==
    [][\A k \in SignerKeys, c \in CRSs, fails \in BOOLEAN :
         (/\ out'.op = "SignCRS"
          /\ SignCRS(k, c, fails)
          /\ block.Position.Round >= dkgDelayRound
          /\ block.ProposerID = NewNodeID(k))
         => IF blsSign[k] = 0
              THEN /\ out'.err = "ErrNoBLSSigner"
                   /\ block' = block
                   /\ blsCalls' = blsCalls
                   /\ blsSign' = blsSign
              ELSE /\ blsCalls'
                        = Append(blsCalls,
                                 [key |-> k, round |-> block.Position.Round,
                                  hash |-> Keccak256Hash(c \o HashPosition(block.Position))])
                   /\ out'.err \in {"nil", "ErrBLSSign"}
                   /\ out'.err = "nil"
                        => block'.CRSSignature
                             = BLSSign(blsSign[k], blsCalls'[Len(blsCalls')].hash)]_vars

\* the same SignCRS call has failed for the missing threshold signer and,
\* after SetBLSSigner, has been passed to it
C25_Witness ==
    /\ Len(crsLog) = 2
    /\ crsLog[1].err = "ErrNoBLSSigner"
    /\ crsLog[2] = [crsLog[1] EXCEPT !.err = "nil"]
    /\ out = Out("SignCRS", "nil", FALSE)
    /\ Len(blsCalls) = 1
    /\ blsCalls[1].round >= dkgDelayRound
    /\ block.CRSSignature = BLSSign(SignerBLSKey, blsCalls[1].hash)

\* C26: in every round, SignCRS on a block whose ProposerID is not the
\* signer's returns ErrInvalidProposerID, does not call the threshold signer
\* and leaves the block as it was.
C26_ProposerCheck ==
    [][\A k \in SignerKeys, c \in CRSs, fails \in BOOLEAN :
         (/\ out'.op = "SignCRS"
          /\ SignCRS(k, c, fails)
          /\ block.ProposerID # NewNodeID(k))
         => /\ out'.err = "ErrInvalidProposerID"
            /\ blsCalls' = blsCalls
            /\ block' = block]_vars

\* a signer with a threshold signer has refused a block of another proposer
\* in a round from dkgDelayRound on
C26_Witness ==
    /\ out = Out("SignCRS", "ErrInvalidProposerID", FALSE)
    /\ Len(crsLog) = 1
    /\ block.ProposerID # NewNodeID(crsLog[1].key)
    /\ blsSign[crsLog[1].key] # 0
    /\ block.Position.Round >= dkgDelayRound
    /\ blsCalls = <<>>
    /\ block.CRSSignature = NoSignature

\* C27: for a block of a round from dkgDelayRound on, VerifyCRSSignature is
\* false when npks is nil or holds no key for ProposerID, and else true
\* exactly when CRSSignature is a signature of the digest of (crs, position
\* hash) under that proposer's group public key.
C27_PostThresholdVerify ==
    block.Position.Round >= dkgDelayRound
    => \A c \in CRSs, npks \in NodePublicKeys :
         LET ok == VerifyCRSSignature(block, c, npks)
         IN  IF npks.isNil \/ block.ProposerID \notin DOMAIN npks.PublicKeys
               THEN ~ok
               ELSE ok <=> (block.CRSSignature
                              = BLSSign(npks.PublicKeys[block.ProposerID],
                                        Keccak256Hash(c \o HashPosition(block.Position))))

\* a threshold signature has been accepted under the proposer's group key,
\* and is rejected under the other key and under the key of another node
C27_Witness ==
    /\ out = Out("VerifyCRSSignature", "nil", TRUE)
    /\ block.Position.Round >= dkgDelayRound
    /\ Len(blsCalls) = 1
    /\ \E c \in CRSs, n \in {NewNodeID(1), NewNodeID(2)} \ {block.ProposerID} :
         /\ VerifyCRSSignature(block, c,
                [isNil |-> FALSE, PublicKeys |-> [d \in {block.ProposerID} |-> SignerBLSKey]])
         /\ ~VerifyCRSSignature(block, c,
                [isNil |-> FALSE, PublicKeys |-> [d \in {block.ProposerID} |-> 12]])
         /\ ~VerifyCRSSignature(block, c,
                [isNil |-> FALSE, PublicKeys |-> [d \in {n} |-> SignerBLSKey]])


\* C28: no two message types share an encoding: a signature made for an
\* MPKReady, a Finalize or a Success message does not verify as the
\* signature of a message of another of these types with the same
\* proposerID, round and reset.
C28_DomainSeparation ==
    (msg.kind \in DKGKinds /\ VerifyDKGSignature(msg.kind, msg).ok)
    => \A mt \in DKGKinds \ {msg.kind} : ~VerifyDKGSignature(mt, msg).ok

\* C29: VerifyDKGComplaintSignature returns false and no error when the
\* round or the reset of the complaint differs from that of the embedded
\* private share; when they match and the complaint's own signature is
\* valid, a nack complaint verifies true and another complaint verifies
\* exactly as the signature of the embedded private share does.
C29_ComplaintVerify ==
    msg.kind = "Complaint"
    => LET r == VerifyDKGComplaintSignature(msg)
           own == VerifyRecovered(msg.ProposerID,
                                  SigToPub(hashDKGComplaint(msg), msg.Signature))
       IN  IF msg.Round # msg.PrivateShare.Round \/ msg.Reset # msg.PrivateShare.Reset
             THEN r = [ok |-> FALSE, err |-> "nil"]
             ELSE own.ok
                  => IF msg.IsNack
                       THEN r = [ok |-> TRUE, err |-> "nil"]
                       ELSE r.ok <=> VerifyDKGPrivateShareSignature(msg.PrivateShare).ok

\* a complaint about a concrete share, validly signed and for the share's
\* round and reset, has been refused for the signature of the share
C29_Witness ==
    /\ msg.kind = "Complaint"
    /\ ~msg.IsNack
    /\ msg.Round = msg.PrivateShare.Round
    /\ msg.Reset = msg.PrivateShare.Reset
    /\ SigToPub(hashDKGComplaint(msg), msg.Signature).key = msg.ProposerID - 100
    /\ out.op = "VerifyDKGComplaintSignature"
    /\ ~out.ok
    /\ ~VerifyDKGComplaintSignature(msg).ok


\* C30: Rehash(h, 0) = h, and Rehash(h, n + m) = Rehash(Rehash(h, n), m).
C30_RehashLaws ==
    /\ rh.zero = rh.h
    /\ rh.whole = rh.second

\* a hash has been rehashed n > 0 and then m > 0 times, and n + m times
C30_Witness ==
    /\ rh.n > 0
    /\ rh.m > 0
    /\ rh.first # rh.h
    /\ rh.second # rh.first
    /\ rh.whole = rh.second


(***************************************************************************)
(* Properties of the dex cache.                                            *)
(***************************************************************************)
\* the position of block b has a finalized block in the cache
HasFinalized(b) == b.Position \in DOMAIN finalizedBlockCache

\* C33: while finalizedBlockCache holds a block for a position, an addBlock
\* call for any block of that position, and an addBlocks call whose blocks
\* are non-finalized blocks of such positions, leave blockCache and
\* finalizedBlockCache as they were.
C33_FinalizedBlocksWin ==
    [][(nCacheOps' = nCacheOps + 1) =>
        /\ (cacheLast'.op = "addBlock" /\ HasFinalized(cacheLast'.arg)) =>
                UNCHANGED <<blockCache, finalizedBlockCache>>
        /\ (/\ cacheLast'.op = "addBlocks"
            /\ \A b \in Range(cacheLast'.arg) :
                   HasFinalized(b) /\ ~IsFinalized(b)) =>
                UNCHANGED <<blockCache, finalizedBlockCache>>]_vars

\* the last call was an addBlock of a block whose position has a finalized
\* block of another hash, and the block is not in blockCache
C33_Witness ==
    /\ cacheLast.op = "addBlock"
    /\ HasFinalized(cacheLast.arg)
    /\ finalizedBlockCache[cacheLast.arg.Position].Hash # cacheLast.arg.Hash
    /\ cacheLast.arg.Hash \notin DOMAIN blockCache


\* the number of votes stored at the positions of todo
RECURSIVE CountVotes(_, _)
CountVotes(vc, todo) ==
    IF todo = {}
    THEN 0
    ELSE LET pos == CHOOSE x \in todo : TRUE
         IN Cardinality(DOMAIN vc[pos]) + CountVotes(vc, todo \ {pos})

\* the last n elements of s
Suffix(s, n) == SubSeq(s, Len(s) - n + 1, Len(s))

\* C39: in a cache built with a size of at least 1, after any sequence of
\* addVote calls voteSize is the number of votes stored at all positions,
\* that number is at most size, and votePosition lists the positions of
\* voteCache, each once, in the order in which their entries were made.
C39_VoteCacheBound ==
    size >= 1 =>
        /\ voteSize = CountVotes(voteCache, DOMAIN voteCache)
        /\ CountVotes(voteCache, DOMAIN voteCache) <= size
        /\ Range(votePosition) = DOMAIN voteCache
        /\ Len(votePosition) = Cardinality(DOMAIN voteCache)
        /\ Len(votePosition) <= Len(created)
        /\ votePosition = Suffix(created, Len(votePosition))

\* the last addVote found the cache full, dropped the oldest position and
\* left a full cache of two positions
C39_Witness ==
    /\ cacheLast.op = "addVote"
    /\ cacheLast.full
    /\ voteSize = size
    /\ Len(votePosition) = 2
    /\ Len(created) = 3


\* the key of vote v is in the cache
IsCached(v) ==
    /\ v.Position \in DOMAIN voteCache
    /\ voteToKey(v) \in DOMAIN voteCache[v.Position]

\* C40: an addVote call with a vote whose key is already cached leaves
\* voteCache, votePosition and voteSize as they were, also when the cache is
\* full.
C40_AddVoteIdempotent ==
    [][(/\ nCacheOps' = nCacheOps + 1
        /\ cacheLast'.op = "addVote"
        /\ IsCached(cacheLast'.arg)) =>
            UNCHANGED <<voteCache, votePosition, voteSize>>]_vars

(***************************************************************************)
(* Properties of the MemBackedDB.                                          *)
(***************************************************************************)
\* the PutBlock calls for hash h that returned e
PutsReturned(h, e) == {i \in 1..Len(putLog) : putLog[i].hash = h /\ putLog[i].err = e}

\* the threads that are inside a PutBlock call
InPutBlock == {t \in DBThreads : putCall[t].pc # "idle"}

\* C38: under any interleaving of concurrent PutBlock calls no hash is
\* twice in blockHashSequence, of the PutBlock calls made for one hash
\* exactly one returns nil and the others return ErrBlockExists, and every
\* hash of the sequence has an entry in blocksByHash.
C38_PutBlockUnique ==
    /\ \A i \in 1..Len(blockHashSequence), j \in 1..Len(blockHashSequence) :
           blockHashSequence[i] = blockHashSequence[j] => i = j
    /\ \A h \in DBHashes :
           /\ Cardinality(PutsReturned(h, "nil")) <= 1
           /\ (InPutBlock = {} /\ PutsReturned(h, "ErrBlockExists") # {}) =>
                  Cardinality(PutsReturned(h, "nil")) = 1
    /\ Range(blockHashSequence) \subseteq DOMAIN blocksByHash

====
